---- MODULE Spec2Model ----
(***************************************************************************)
(* A model of build.ts, the puzzle builder of pnowosie/czesia: the PGN     *)
(* segmenter (parsePGN), the move decoder (parseMoves), the per-record     *)
(* assembly and the chunker/ID assigner (processCollection) and the        *)
(* collection loop (main).                                                 *)
(*                                                                         *)
(* Text is modelled as it is in the program: a JavaScript string is a      *)
(* sequence of one-character strings, so that split, trim, startsWith, the *)
(* regular expressions and the template strings of the source are computed *)
(* character by character.  null/undefined is the value Null, which is no  *)
(* string (its only element has more than one character).                  *)
(***************************************************************************)
EXTENDS Integers, Sequences, FiniteSets, TLC

\* ------------------------------------------------------------------------
\* Bounds of the model
\* ------------------------------------------------------------------------
MaxParts == 4
MaxTokens == 3
MaxPuzzles == 4
MaxPerFile == 4
MaxFolders == 3

\* ------------------------------------------------------------------------
\* JavaScript strings
\* ------------------------------------------------------------------------
Null == <<"null">>

\* JavaScript truthiness of a string | null value: null and "" are falsy
Truthy(v) == v # Null /\ v # <<>>

Digits == {"0", "1", "2", "3", "4", "5", "6", "7", "8", "9"}

DigitChars == <<"0", "1", "2", "3", "4", "5", "6", "7", "8", "9">>

\* A string is a sequence of UTF-16 code units, each held as a one-character
\* string; a code unit that cannot be written in a string of a module is held
\* as its JavaScript escape, the six characters \uXXXX.

\* \s of a regular expression and the white space of trim(): the WhiteSpace
\* and LineTerminator code points of ECMAScript
SpaceChars ==
  {"\t", "\n", "", "\f", "\r", " ", " ", " ", "\\u2000", "\\u2001", "\\u2002",
   "\\u2003", "\\u2004", "\\u2005", "\\u2006", "\\u2007", "\\u2008", "\\u2009",
   "\\u200a", "\\u2028", "\\u2029", "\\u202f", "\\u205f", "\\u3000", "﻿"}

IsSpace(c) == c \in SpaceChars

LowerChars == <<"a", "b", "c", "d", "e", "f", "g", "h", "i", "j", "k", "l", "m",
                "n", "o", "p", "q", "r", "s", "t", "u", "v", "w", "x", "y", "z">>

UpperChars == <<"A", "B", "C", "D", "E", "F", "G", "H", "I", "J", "K", "L", "M",
                "N", "O", "P", "Q", "R", "S", "T", "U", "V", "W", "X", "Y", "Z">>

\* s.slice(from) with a 0-based index, as a 1-based suffix
Drop(s, n) == SubSeq(s, n + 1, Len(s))

Take(s, n) == SubSeq(s, 1, n)

\* s.startsWith(p), also used for a pattern matched at position 1
StartsWith(s, p) == Len(s) >= Len(p) /\ Take(s, Len(p)) = p

EndsWith(s, p) == Len(s) >= Len(p) /\ Drop(s, Len(s) - Len(p)) = p

Min(S) == CHOOSE k \in S : \A m \in S : k <= m

Max(S) == CHOOSE k \in S : \A m \in S : k >= m

\* the j-th smallest element of a set of integers
Nth(S, j) == CHOOSE k \in S : Cardinality({m \in S : m < k}) = j - 1

\* the length of the longest run of characters of a set that starts at s[k]
RECURSIVE RunLenAt(_, _, _)
RunLenAt(s, k, set) ==
  IF k <= Len(s) /\ s[k] \in set THEN 1 + RunLenAt(s, k + 1, set) ELSE 0

RunLen(s, set) == RunLenAt(s, 1, set)

\* the length of the longest run of characters of a set that ends at s[k]
RECURSIVE RunLenBefore(_, _, _)
RunLenBefore(s, k, set) ==
  IF k >= 1 /\ s[k] \in set THEN 1 + RunLenBefore(s, k - 1, set) ELSE 0

TrimStart(s) == Drop(s, RunLen(s, SpaceChars))

TrimEnd(s) == Take(s, Len(s) - RunLenBefore(s, Len(s), SpaceChars))

Trim(s) == TrimEnd(TrimStart(s))

\* s.split(c) for a one-character separator: "" gives [""]
Split(s, c) ==
  LET seps == {k \in 1..Len(s) : s[k] = c}
      n    == Cardinality(seps)
      from(j) == IF j = 1 THEN 1 ELSE Nth(seps, j - 1) + 1
      to(j)   == IF j = n + 1 THEN Len(s) ELSE Nth(seps, j) - 1
  IN  [j \in 1..(n + 1) |-> SubSeq(s, from(j), to(j))]

\* s.replace(/re/g, rep), where lens[k] is the length of the match of re that
\* starts at s[k], and 0 when there is none (no pattern here matches ""):
\* the matches are taken left to right, each search resuming after the last
RECURSIVE ReplaceFrom(_, _, _, _)
ReplaceFrom(lens, s, rep, from) ==
  LET hits == {k \in from..Len(s) : lens[k] > 0}
  IN  IF hits = {} THEN SubSeq(s, from, Len(s))
      ELSE LET p == Min(hits)
           IN  SubSeq(s, from, p - 1) \o rep \o ReplaceFrom(lens, s, rep, p + lens[p])

ReplaceAll(lens, s, rep) == ReplaceFrom(lens, s, rep, 1)

\* parts.join(sep)
RECURSIVE Join(_, _)
Join(parts, sep) ==
  IF parts = <<>> THEN <<>>
  ELSE IF Len(parts) = 1 THEN parts[1]
  ELSE parts[1] \o sep \o Join(Tail(parts), sep)

\* String(n) for a non-negative integer
RECURSIVE NumberToString(_)
NumberToString(n) ==
  IF n < 10 THEN <<DigitChars[n + 1]>>
  ELSE Append(NumberToString(n \div 10), DigitChars[(n % 10) + 1])

\* ------------------------------------------------------------------------
\* toUpperCase and toLowerCase
\* ------------------------------------------------------------------------
\* The case conversion of the runtime follows the version of Unicode the
\* runtime is built with.  It is modelled on the code units of six blocks
\* on which versions 14 and 15 of the character database agree: Basic Latin,
\* Latin-1 Supplement, Latin Extended-A, Combining Diacritical Marks, Greek
\* and Coptic, and Cyrillic (U+0000-U+017F, U+0300-U+04FF).  A string with
\* any other code unit, a surrogate among them, has no value here.
Alphabet ==
  {"\\u0000", "\\u0001", "\\u0002", "\\u0003", "\\u0004", "\\u0005", "\\u0006",
   "\\u0007", "\\u0008", "\t", "\n", "", "\f", "\r", "\\u000e", "\\u000f", "\\u0010",
   "\\u0011", "\\u0012", "\\u0013", "\\u0014", "\\u0015", "\\u0016", "\\u0017",
   "\\u0018", "\\u0019", "\\u001a", "\\u001b", "\\u001c", "\\u001d", "\\u001e",
   "\\u001f", " ", "!", "\"", "#", "$", "%", "&", "'", "(", ")", "*", "+", ",", "-",
   ".", "/", "0", "1", "2", "3", "4", "5", "6", "7", "8", "9", ":", ";", "<", "=", ">",
   "?", "@", "A", "B", "C", "D", "E", "F", "G", "H", "I", "J", "K", "L", "M", "N", "O",
   "P", "Q", "R", "S", "T", "U", "V", "W", "X", "Y", "Z", "[", "\\", "]", "^", "_",
   "\\u0060", "a", "b", "c", "d", "e", "f", "g", "h", "i", "j", "k", "l", "m", "n", "o",
   "p", "q", "r", "s", "t", "u", "v", "w", "x", "y", "z", "{", "|", "}", "~", "\\u007f",
   "", "", "", "", "", "", "", "", "", "", "", "", "", "", "", "", "",
   "", "", "", "", "", "", "", "", "", "", "", "", "", "", "", " ", "¡",
   "¢", "£", "¤", "¥", "¦", "§", "¨", "©", "ª", "«", "¬", "­", "®", "¯", "°", "±", "²",
   "³", "´", "µ", "¶", "·", "¸", "¹", "º", "»", "¼", "½", "¾", "¿", "À", "Á", "Â", "Ã",
   "Ä", "Å", "Æ", "Ç", "È", "É", "Ê", "Ë", "Ì", "Í", "Î", "Ï", "Ð", "Ñ", "Ò", "Ó", "Ô",
   "Õ", "Ö", "×", "Ø", "Ù", "Ú", "Û", "Ü", "Ý", "Þ", "ß", "à", "á", "â", "ã", "ä", "å",
   "æ", "ç", "è", "é", "ê", "ë", "ì", "í", "î", "ï", "ð", "ñ", "ò", "ó", "ô", "õ", "ö",
   "÷", "ø", "ù", "ú", "û", "ü", "ý", "þ", "ÿ", "\\u0100", "\\u0101", "\\u0102",
   "\\u0103", "\\u0104", "\\u0105", "\\u0106", "\\u0107", "\\u0108", "\\u0109",
   "\\u010a", "\\u010b", "\\u010c", "\\u010d", "\\u010e", "\\u010f", "\\u0110",
   "\\u0111", "\\u0112", "\\u0113", "\\u0114", "\\u0115", "\\u0116", "\\u0117",
   "\\u0118", "\\u0119", "\\u011a", "\\u011b", "\\u011c", "\\u011d", "\\u011e",
   "\\u011f", "\\u0120", "\\u0121", "\\u0122", "\\u0123", "\\u0124", "\\u0125",
   "\\u0126", "\\u0127", "\\u0128", "\\u0129", "\\u012a", "\\u012b", "\\u012c",
   "\\u012d", "\\u012e", "\\u012f", "\\u0130", "\\u0131", "\\u0132", "\\u0133",
   "\\u0134", "\\u0135", "\\u0136", "\\u0137", "\\u0138", "\\u0139", "\\u013a",
   "\\u013b", "\\u013c", "\\u013d", "\\u013e", "\\u013f", "\\u0140", "\\u0141",
   "\\u0142", "\\u0143", "\\u0144", "\\u0145", "\\u0146", "\\u0147", "\\u0148",
   "\\u0149", "\\u014a", "\\u014b", "\\u014c", "\\u014d", "\\u014e", "\\u014f",
   "\\u0150", "\\u0151", "\\u0152", "\\u0153", "\\u0154", "\\u0155", "\\u0156",
   "\\u0157", "\\u0158", "\\u0159", "\\u015a", "\\u015b", "\\u015c", "\\u015d",
   "\\u015e", "\\u015f", "\\u0160", "\\u0161", "\\u0162", "\\u0163", "\\u0164",
   "\\u0165", "\\u0166", "\\u0167", "\\u0168", "\\u0169", "\\u016a", "\\u016b",
   "\\u016c", "\\u016d", "\\u016e", "\\u016f", "\\u0170", "\\u0171", "\\u0172",
   "\\u0173", "\\u0174", "\\u0175", "\\u0176", "\\u0177", "\\u0178", "\\u0179",
   "\\u017a", "\\u017b", "\\u017c", "\\u017d", "\\u017e", "\\u017f", "\\u0300",
   "\\u0301", "\\u0302", "\\u0303", "\\u0304", "\\u0305", "\\u0306", "\\u0307",
   "\\u0308", "\\u0309", "\\u030a", "\\u030b", "\\u030c", "\\u030d", "\\u030e",
   "\\u030f", "\\u0310", "\\u0311", "\\u0312", "\\u0313", "\\u0314", "\\u0315",
   "\\u0316", "\\u0317", "\\u0318", "\\u0319", "\\u031a", "\\u031b", "\\u031c",
   "\\u031d", "\\u031e", "\\u031f", "\\u0320", "\\u0321", "\\u0322", "\\u0323",
   "\\u0324", "\\u0325", "\\u0326", "\\u0327", "\\u0328", "\\u0329", "\\u032a",
   "\\u032b", "\\u032c", "\\u032d", "\\u032e", "\\u032f", "\\u0330", "\\u0331",
   "\\u0332", "\\u0333", "\\u0334", "\\u0335", "\\u0336", "\\u0337", "\\u0338",
   "\\u0339", "\\u033a", "\\u033b", "\\u033c", "\\u033d", "\\u033e", "\\u033f",
   "\\u0340", "\\u0341", "\\u0342", "\\u0343", "\\u0344", "\\u0345", "\\u0346",
   "\\u0347", "\\u0348", "\\u0349", "\\u034a", "\\u034b", "\\u034c", "\\u034d",
   "\\u034e", "\\u034f", "\\u0350", "\\u0351", "\\u0352", "\\u0353", "\\u0354",
   "\\u0355", "\\u0356", "\\u0357", "\\u0358", "\\u0359", "\\u035a", "\\u035b",
   "\\u035c", "\\u035d", "\\u035e", "\\u035f", "\\u0360", "\\u0361", "\\u0362",
   "\\u0363", "\\u0364", "\\u0365", "\\u0366", "\\u0367", "\\u0368", "\\u0369",
   "\\u036a", "\\u036b", "\\u036c", "\\u036d", "\\u036e", "\\u036f", "\\u0370",
   "\\u0371", "\\u0372", "\\u0373", "\\u0374", "\\u0375", "\\u0376", "\\u0377",
   "\\u037a", "\\u037b", "\\u037c", "\\u037d", "\\u037e", "\\u037f", "΄", "΅", "Ά", "·",
   "Έ", "Ή", "Ί", "Ό", "Ύ", "Ώ", "ΐ", "Α", "Β", "Γ", "Δ", "Ε", "Ζ", "Η", "Θ", "Ι", "Κ",
   "Λ", "Μ", "Ν", "Ξ", "Ο", "Π", "Ρ", "Σ", "Τ", "Υ", "Φ", "Χ", "Ψ", "Ω", "Ϊ", "Ϋ", "ά",
   "έ", "ή", "ί", "ΰ", "α", "β", "γ", "δ", "ε", "ζ", "η", "θ", "ι", "κ", "λ", "μ", "ν",
   "ξ", "ο", "π", "ρ", "ς", "σ", "τ", "υ", "φ", "χ", "ψ", "ω", "ϊ", "ϋ", "ό", "ύ", "ώ",
   "Ϗ", "ϐ", "ϑ", "ϒ", "ϓ", "ϔ", "ϕ", "ϖ", "ϗ", "Ϙ", "ϙ", "Ϛ", "ϛ", "Ϝ", "ϝ", "Ϟ", "ϟ",
   "Ϡ", "ϡ", "Ϣ", "ϣ", "Ϥ", "ϥ", "Ϧ", "ϧ", "Ϩ", "ϩ", "Ϫ", "ϫ", "Ϭ", "ϭ", "Ϯ", "ϯ", "ϰ",
   "ϱ", "ϲ", "ϳ", "ϴ", "ϵ", "϶", "Ϸ", "ϸ", "Ϲ", "Ϻ", "ϻ", "ϼ", "Ͻ", "Ͼ", "Ͽ", "\\u0400",
   "\\u0401", "\\u0402", "\\u0403", "\\u0404", "\\u0405", "\\u0406", "\\u0407",
   "\\u0408", "\\u0409", "\\u040a", "\\u040b", "\\u040c", "\\u040d", "\\u040e",
   "\\u040f", "\\u0410", "\\u0411", "\\u0412", "\\u0413", "\\u0414", "\\u0415",
   "\\u0416", "\\u0417", "\\u0418", "\\u0419", "\\u041a", "\\u041b", "\\u041c",
   "\\u041d", "\\u041e", "\\u041f", "\\u0420", "\\u0421", "\\u0422", "\\u0423",
   "\\u0424", "\\u0425", "\\u0426", "\\u0427", "\\u0428", "\\u0429", "\\u042a",
   "\\u042b", "\\u042c", "\\u042d", "\\u042e", "\\u042f", "\\u0430", "\\u0431",
   "\\u0432", "\\u0433", "\\u0434", "\\u0435", "\\u0436", "\\u0437", "\\u0438",
   "\\u0439", "\\u043a", "\\u043b", "\\u043c", "\\u043d", "\\u043e", "\\u043f",
   "\\u0440", "\\u0441", "\\u0442", "\\u0443", "\\u0444", "\\u0445", "\\u0446",
   "\\u0447", "\\u0448", "\\u0449", "\\u044a", "\\u044b", "\\u044c", "\\u044d",
   "\\u044e", "\\u044f", "\\u0450", "\\u0451", "\\u0452", "\\u0453", "\\u0454",
   "\\u0455", "\\u0456", "\\u0457", "\\u0458", "\\u0459", "\\u045a", "\\u045b",
   "\\u045c", "\\u045d", "\\u045e", "\\u045f", "\\u0460", "\\u0461", "\\u0462",
   "\\u0463", "\\u0464", "\\u0465", "\\u0466", "\\u0467", "\\u0468", "\\u0469",
   "\\u046a", "\\u046b", "\\u046c", "\\u046d", "\\u046e", "\\u046f", "\\u0470",
   "\\u0471", "\\u0472", "\\u0473", "\\u0474", "\\u0475", "\\u0476", "\\u0477",
   "\\u0478", "\\u0479", "\\u047a", "\\u047b", "\\u047c", "\\u047d", "\\u047e",
   "\\u047f", "Ҁ", "ҁ", "҂", "҃", "҄", "҅", "҆", "҇", "҈", "҉", "Ҋ", "ҋ", "Ҍ", "ҍ", "Ҏ",
   "ҏ", "Ґ", "ґ", "Ғ", "ғ", "Ҕ", "ҕ", "Җ", "җ", "Ҙ", "ҙ", "Қ", "қ", "Ҝ", "ҝ", "Ҟ", "ҟ",
   "Ҡ", "ҡ", "Ң", "ң", "Ҥ", "ҥ", "Ҧ", "ҧ", "Ҩ", "ҩ", "Ҫ", "ҫ", "Ҭ", "ҭ", "Ү", "ү", "Ұ",
   "ұ", "Ҳ", "ҳ", "Ҵ", "ҵ", "Ҷ", "ҷ", "Ҹ", "ҹ", "Һ", "һ", "Ҽ", "ҽ", "Ҿ", "ҿ", "Ӏ", "Ӂ",
   "ӂ", "Ӄ", "ӄ", "Ӆ", "ӆ", "Ӈ", "ӈ", "Ӊ", "ӊ", "Ӌ", "ӌ", "Ӎ", "ӎ", "ӏ", "Ӑ", "ӑ", "Ӓ",
   "ӓ", "Ӕ", "ӕ", "Ӗ", "ӗ", "Ә", "ә", "Ӛ", "ӛ", "Ӝ", "ӝ", "Ӟ", "ӟ", "Ӡ", "ӡ", "Ӣ", "ӣ",
   "Ӥ", "ӥ", "Ӧ", "ӧ", "Ө", "ө", "Ӫ", "ӫ", "Ӭ", "ӭ", "Ӯ", "ӯ", "Ӱ", "ӱ", "Ӳ", "ӳ", "Ӵ",
   "ӵ", "Ӷ", "ӷ", "Ӹ", "ӹ", "Ӻ", "ӻ", "Ӽ", "ӽ", "Ӿ", "ӿ"}

\* the code units of the alphabet that toUpperCase changes, each with its
\* image, of one to three code units
UpperMap ==
  LET Map(table) ==
        [c \in {table[k][1] : k \in 1..Len(table)} |->
           table[CHOOSE k \in 1..Len(table) : table[k][1] = c][2]]
  IN  Map(
      <<<<"a", <<"A">>>>, <<"b", <<"B">>>>, <<"c", <<"C">>>>, <<"d", <<"D">>>>,
       <<"e", <<"E">>>>, <<"f", <<"F">>>>, <<"g", <<"G">>>>, <<"h", <<"H">>>>,
       <<"i", <<"I">>>>, <<"j", <<"J">>>>, <<"k", <<"K">>>>, <<"l", <<"L">>>>,
       <<"m", <<"M">>>>, <<"n", <<"N">>>>, <<"o", <<"O">>>>, <<"p", <<"P">>>>,
       <<"q", <<"Q">>>>, <<"r", <<"R">>>>, <<"s", <<"S">>>>, <<"t", <<"T">>>>,
       <<"u", <<"U">>>>, <<"v", <<"V">>>>, <<"w", <<"W">>>>, <<"x", <<"X">>>>,
       <<"y", <<"Y">>>>, <<"z", <<"Z">>>>, <<"µ", <<"Μ">>>>, <<"ß", <<"S", "S">>>>,
       <<"à", <<"À">>>>, <<"á", <<"Á">>>>, <<"â", <<"Â">>>>, <<"ã", <<"Ã">>>>,
       <<"ä", <<"Ä">>>>, <<"å", <<"Å">>>>, <<"æ", <<"Æ">>>>, <<"ç", <<"Ç">>>>,
       <<"è", <<"È">>>>, <<"é", <<"É">>>>, <<"ê", <<"Ê">>>>, <<"ë", <<"Ë">>>>,
       <<"ì", <<"Ì">>>>, <<"í", <<"Í">>>>, <<"î", <<"Î">>>>, <<"ï", <<"Ï">>>>,
       <<"ð", <<"Ð">>>>, <<"ñ", <<"Ñ">>>>, <<"ò", <<"Ò">>>>, <<"ó", <<"Ó">>>>,
       <<"ô", <<"Ô">>>>, <<"õ", <<"Õ">>>>, <<"ö", <<"Ö">>>>, <<"ø", <<"Ø">>>>,
       <<"ù", <<"Ù">>>>, <<"ú", <<"Ú">>>>, <<"û", <<"Û">>>>, <<"ü", <<"Ü">>>>,
       <<"ý", <<"Ý">>>>, <<"þ", <<"Þ">>>>, <<"ÿ", <<"\\u0178">>>>,
       <<"\\u0101", <<"\\u0100">>>>, <<"\\u0103", <<"\\u0102">>>>,
       <<"\\u0105", <<"\\u0104">>>>, <<"\\u0107", <<"\\u0106">>>>,
       <<"\\u0109", <<"\\u0108">>>>, <<"\\u010b", <<"\\u010a">>>>,
       <<"\\u010d", <<"\\u010c">>>>, <<"\\u010f", <<"\\u010e">>>>,
       <<"\\u0111", <<"\\u0110">>>>, <<"\\u0113", <<"\\u0112">>>>,
       <<"\\u0115", <<"\\u0114">>>>, <<"\\u0117", <<"\\u0116">>>>,
       <<"\\u0119", <<"\\u0118">>>>, <<"\\u011b", <<"\\u011a">>>>,
       <<"\\u011d", <<"\\u011c">>>>, <<"\\u011f", <<"\\u011e">>>>,
       <<"\\u0121", <<"\\u0120">>>>, <<"\\u0123", <<"\\u0122">>>>,
       <<"\\u0125", <<"\\u0124">>>>, <<"\\u0127", <<"\\u0126">>>>,
       <<"\\u0129", <<"\\u0128">>>>, <<"\\u012b", <<"\\u012a">>>>,
       <<"\\u012d", <<"\\u012c">>>>, <<"\\u012f", <<"\\u012e">>>>,
       <<"\\u0131", <<"I">>>>, <<"\\u0133", <<"\\u0132">>>>,
       <<"\\u0135", <<"\\u0134">>>>, <<"\\u0137", <<"\\u0136">>>>,
       <<"\\u013a", <<"\\u0139">>>>, <<"\\u013c", <<"\\u013b">>>>,
       <<"\\u013e", <<"\\u013d">>>>, <<"\\u0140", <<"\\u013f">>>>,
       <<"\\u0142", <<"\\u0141">>>>, <<"\\u0144", <<"\\u0143">>>>,
       <<"\\u0146", <<"\\u0145">>>>, <<"\\u0148", <<"\\u0147">>>>,
       <<"\\u0149", <<"ʼ", "N">>>>, <<"\\u014b", <<"\\u014a">>>>,
       <<"\\u014d", <<"\\u014c">>>>, <<"\\u014f", <<"\\u014e">>>>,
       <<"\\u0151", <<"\\u0150">>>>, <<"\\u0153", <<"\\u0152">>>>,
       <<"\\u0155", <<"\\u0154">>>>, <<"\\u0157", <<"\\u0156">>>>,
       <<"\\u0159", <<"\\u0158">>>>, <<"\\u015b", <<"\\u015a">>>>,
       <<"\\u015d", <<"\\u015c">>>>, <<"\\u015f", <<"\\u015e">>>>,
       <<"\\u0161", <<"\\u0160">>>>, <<"\\u0163", <<"\\u0162">>>>,
       <<"\\u0165", <<"\\u0164">>>>, <<"\\u0167", <<"\\u0166">>>>,
       <<"\\u0169", <<"\\u0168">>>>, <<"\\u016b", <<"\\u016a">>>>,
       <<"\\u016d", <<"\\u016c">>>>, <<"\\u016f", <<"\\u016e">>>>,
       <<"\\u0171", <<"\\u0170">>>>, <<"\\u0173", <<"\\u0172">>>>,
       <<"\\u0175", <<"\\u0174">>>>, <<"\\u0177", <<"\\u0176">>>>,
       <<"\\u017a", <<"\\u0179">>>>, <<"\\u017c", <<"\\u017b">>>>,
       <<"\\u017e", <<"\\u017d">>>>, <<"\\u017f", <<"S">>>>, <<"\\u0345", <<"Ι">>>>,
       <<"\\u0371", <<"\\u0370">>>>, <<"\\u0373", <<"\\u0372">>>>,
       <<"\\u0377", <<"\\u0376">>>>, <<"\\u037b", <<"Ͻ">>>>, <<"\\u037c", <<"Ͼ">>>>,
       <<"\\u037d", <<"Ͽ">>>>, <<"ΐ", <<"Ι", "\\u0308", "\\u0301">>>>, <<"ά", <<"Ά">>>>,
       <<"έ", <<"Έ">>>>, <<"ή", <<"Ή">>>>, <<"ί", <<"Ί">>>>,
       <<"ΰ", <<"Υ", "\\u0308", "\\u0301">>>>, <<"α", <<"Α">>>>, <<"β", <<"Β">>>>,
       <<"γ", <<"Γ">>>>, <<"δ", <<"Δ">>>>, <<"ε", <<"Ε">>>>, <<"ζ", <<"Ζ">>>>,
       <<"η", <<"Η">>>>, <<"θ", <<"Θ">>>>, <<"ι", <<"Ι">>>>, <<"κ", <<"Κ">>>>,
       <<"λ", <<"Λ">>>>, <<"μ", <<"Μ">>>>, <<"ν", <<"Ν">>>>, <<"ξ", <<"Ξ">>>>,
       <<"ο", <<"Ο">>>>, <<"π", <<"Π">>>>, <<"ρ", <<"Ρ">>>>, <<"ς", <<"Σ">>>>,
       <<"σ", <<"Σ">>>>, <<"τ", <<"Τ">>>>, <<"υ", <<"Υ">>>>, <<"φ", <<"Φ">>>>,
       <<"χ", <<"Χ">>>>, <<"ψ", <<"Ψ">>>>, <<"ω", <<"Ω">>>>, <<"ϊ", <<"Ϊ">>>>,
       <<"ϋ", <<"Ϋ">>>>, <<"ό", <<"Ό">>>>, <<"ύ", <<"Ύ">>>>, <<"ώ", <<"Ώ">>>>,
       <<"ϐ", <<"Β">>>>, <<"ϑ", <<"Θ">>>>, <<"ϕ", <<"Φ">>>>, <<"ϖ", <<"Π">>>>,
       <<"ϗ", <<"Ϗ">>>>, <<"ϙ", <<"Ϙ">>>>, <<"ϛ", <<"Ϛ">>>>, <<"ϝ", <<"Ϝ">>>>,
       <<"ϟ", <<"Ϟ">>>>, <<"ϡ", <<"Ϡ">>>>, <<"ϣ", <<"Ϣ">>>>, <<"ϥ", <<"Ϥ">>>>,
       <<"ϧ", <<"Ϧ">>>>, <<"ϩ", <<"Ϩ">>>>, <<"ϫ", <<"Ϫ">>>>, <<"ϭ", <<"Ϭ">>>>,
       <<"ϯ", <<"Ϯ">>>>, <<"ϰ", <<"Κ">>>>, <<"ϱ", <<"Ρ">>>>, <<"ϲ", <<"Ϲ">>>>,
       <<"ϳ", <<"\\u037f">>>>, <<"ϵ", <<"Ε">>>>, <<"ϸ", <<"Ϸ">>>>, <<"ϻ", <<"Ϻ">>>>,
       <<"\\u0430", <<"\\u0410">>>>, <<"\\u0431", <<"\\u0411">>>>,
       <<"\\u0432", <<"\\u0412">>>>, <<"\\u0433", <<"\\u0413">>>>,
       <<"\\u0434", <<"\\u0414">>>>, <<"\\u0435", <<"\\u0415">>>>,
       <<"\\u0436", <<"\\u0416">>>>, <<"\\u0437", <<"\\u0417">>>>,
       <<"\\u0438", <<"\\u0418">>>>, <<"\\u0439", <<"\\u0419">>>>,
       <<"\\u043a", <<"\\u041a">>>>, <<"\\u043b", <<"\\u041b">>>>,
       <<"\\u043c", <<"\\u041c">>>>, <<"\\u043d", <<"\\u041d">>>>,
       <<"\\u043e", <<"\\u041e">>>>, <<"\\u043f", <<"\\u041f">>>>,
       <<"\\u0440", <<"\\u0420">>>>, <<"\\u0441", <<"\\u0421">>>>,
       <<"\\u0442", <<"\\u0422">>>>, <<"\\u0443", <<"\\u0423">>>>,
       <<"\\u0444", <<"\\u0424">>>>, <<"\\u0445", <<"\\u0425">>>>,
       <<"\\u0446", <<"\\u0426">>>>, <<"\\u0447", <<"\\u0427">>>>,
       <<"\\u0448", <<"\\u0428">>>>, <<"\\u0449", <<"\\u0429">>>>,
       <<"\\u044a", <<"\\u042a">>>>, <<"\\u044b", <<"\\u042b">>>>,
       <<"\\u044c", <<"\\u042c">>>>, <<"\\u044d", <<"\\u042d">>>>,
       <<"\\u044e", <<"\\u042e">>>>, <<"\\u044f", <<"\\u042f">>>>,
       <<"\\u0450", <<"\\u0400">>>>, <<"\\u0451", <<"\\u0401">>>>,
       <<"\\u0452", <<"\\u0402">>>>, <<"\\u0453", <<"\\u0403">>>>,
       <<"\\u0454", <<"\\u0404">>>>, <<"\\u0455", <<"\\u0405">>>>,
       <<"\\u0456", <<"\\u0406">>>>, <<"\\u0457", <<"\\u0407">>>>,
       <<"\\u0458", <<"\\u0408">>>>, <<"\\u0459", <<"\\u0409">>>>,
       <<"\\u045a", <<"\\u040a">>>>, <<"\\u045b", <<"\\u040b">>>>,
       <<"\\u045c", <<"\\u040c">>>>, <<"\\u045d", <<"\\u040d">>>>,
       <<"\\u045e", <<"\\u040e">>>>, <<"\\u045f", <<"\\u040f">>>>,
       <<"\\u0461", <<"\\u0460">>>>, <<"\\u0463", <<"\\u0462">>>>,
       <<"\\u0465", <<"\\u0464">>>>, <<"\\u0467", <<"\\u0466">>>>,
       <<"\\u0469", <<"\\u0468">>>>, <<"\\u046b", <<"\\u046a">>>>,
       <<"\\u046d", <<"\\u046c">>>>, <<"\\u046f", <<"\\u046e">>>>,
       <<"\\u0471", <<"\\u0470">>>>, <<"\\u0473", <<"\\u0472">>>>,
       <<"\\u0475", <<"\\u0474">>>>, <<"\\u0477", <<"\\u0476">>>>,
       <<"\\u0479", <<"\\u0478">>>>, <<"\\u047b", <<"\\u047a">>>>,
       <<"\\u047d", <<"\\u047c">>>>, <<"\\u047f", <<"\\u047e">>>>, <<"ҁ", <<"Ҁ">>>>,
       <<"ҋ", <<"Ҋ">>>>, <<"ҍ", <<"Ҍ">>>>, <<"ҏ", <<"Ҏ">>>>, <<"ґ", <<"Ґ">>>>,
       <<"ғ", <<"Ғ">>>>, <<"ҕ", <<"Ҕ">>>>, <<"җ", <<"Җ">>>>, <<"ҙ", <<"Ҙ">>>>,
       <<"қ", <<"Қ">>>>, <<"ҝ", <<"Ҝ">>>>, <<"ҟ", <<"Ҟ">>>>, <<"ҡ", <<"Ҡ">>>>,
       <<"ң", <<"Ң">>>>, <<"ҥ", <<"Ҥ">>>>, <<"ҧ", <<"Ҧ">>>>, <<"ҩ", <<"Ҩ">>>>,
       <<"ҫ", <<"Ҫ">>>>, <<"ҭ", <<"Ҭ">>>>, <<"ү", <<"Ү">>>>, <<"ұ", <<"Ұ">>>>,
       <<"ҳ", <<"Ҳ">>>>, <<"ҵ", <<"Ҵ">>>>, <<"ҷ", <<"Ҷ">>>>, <<"ҹ", <<"Ҹ">>>>,
       <<"һ", <<"Һ">>>>, <<"ҽ", <<"Ҽ">>>>, <<"ҿ", <<"Ҿ">>>>, <<"ӂ", <<"Ӂ">>>>,
       <<"ӄ", <<"Ӄ">>>>, <<"ӆ", <<"Ӆ">>>>, <<"ӈ", <<"Ӈ">>>>, <<"ӊ", <<"Ӊ">>>>,
       <<"ӌ", <<"Ӌ">>>>, <<"ӎ", <<"Ӎ">>>>, <<"ӏ", <<"Ӏ">>>>, <<"ӑ", <<"Ӑ">>>>,
       <<"ӓ", <<"Ӓ">>>>, <<"ӕ", <<"Ӕ">>>>, <<"ӗ", <<"Ӗ">>>>, <<"ә", <<"Ә">>>>,
       <<"ӛ", <<"Ӛ">>>>, <<"ӝ", <<"Ӝ">>>>, <<"ӟ", <<"Ӟ">>>>, <<"ӡ", <<"Ӡ">>>>,
       <<"ӣ", <<"Ӣ">>>>, <<"ӥ", <<"Ӥ">>>>, <<"ӧ", <<"Ӧ">>>>, <<"ө", <<"Ө">>>>,
       <<"ӫ", <<"Ӫ">>>>, <<"ӭ", <<"Ӭ">>>>, <<"ӯ", <<"Ӯ">>>>, <<"ӱ", <<"Ӱ">>>>,
       <<"ӳ", <<"Ӳ">>>>, <<"ӵ", <<"Ӵ">>>>, <<"ӷ", <<"Ӷ">>>>, <<"ӹ", <<"Ӹ">>>>,
       <<"ӻ", <<"Ӻ">>>>, <<"ӽ", <<"Ӽ">>>>, <<"ӿ", <<"Ӿ">>>>>>)

\* the code units of the alphabet that toLowerCase changes; the capital
\* sigma is given its non-final form
LowerMap ==
  LET Map(table) ==
        [c \in {table[k][1] : k \in 1..Len(table)} |->
           table[CHOOSE k \in 1..Len(table) : table[k][1] = c][2]]
  IN  Map(
      <<<<"A", <<"a">>>>, <<"B", <<"b">>>>, <<"C", <<"c">>>>, <<"D", <<"d">>>>,
       <<"E", <<"e">>>>, <<"F", <<"f">>>>, <<"G", <<"g">>>>, <<"H", <<"h">>>>,
       <<"I", <<"i">>>>, <<"J", <<"j">>>>, <<"K", <<"k">>>>, <<"L", <<"l">>>>,
       <<"M", <<"m">>>>, <<"N", <<"n">>>>, <<"O", <<"o">>>>, <<"P", <<"p">>>>,
       <<"Q", <<"q">>>>, <<"R", <<"r">>>>, <<"S", <<"s">>>>, <<"T", <<"t">>>>,
       <<"U", <<"u">>>>, <<"V", <<"v">>>>, <<"W", <<"w">>>>, <<"X", <<"x">>>>,
       <<"Y", <<"y">>>>, <<"Z", <<"z">>>>, <<"À", <<"à">>>>, <<"Á", <<"á">>>>,
       <<"Â", <<"â">>>>, <<"Ã", <<"ã">>>>, <<"Ä", <<"ä">>>>, <<"Å", <<"å">>>>,
       <<"Æ", <<"æ">>>>, <<"Ç", <<"ç">>>>, <<"È", <<"è">>>>, <<"É", <<"é">>>>,
       <<"Ê", <<"ê">>>>, <<"Ë", <<"ë">>>>, <<"Ì", <<"ì">>>>, <<"Í", <<"í">>>>,
       <<"Î", <<"î">>>>, <<"Ï", <<"ï">>>>, <<"Ð", <<"ð">>>>, <<"Ñ", <<"ñ">>>>,
       <<"Ò", <<"ò">>>>, <<"Ó", <<"ó">>>>, <<"Ô", <<"ô">>>>, <<"Õ", <<"õ">>>>,
       <<"Ö", <<"ö">>>>, <<"Ø", <<"ø">>>>, <<"Ù", <<"ù">>>>, <<"Ú", <<"ú">>>>,
       <<"Û", <<"û">>>>, <<"Ü", <<"ü">>>>, <<"Ý", <<"ý">>>>, <<"Þ", <<"þ">>>>,
       <<"\\u0100", <<"\\u0101">>>>, <<"\\u0102", <<"\\u0103">>>>,
       <<"\\u0104", <<"\\u0105">>>>, <<"\\u0106", <<"\\u0107">>>>,
       <<"\\u0108", <<"\\u0109">>>>, <<"\\u010a", <<"\\u010b">>>>,
       <<"\\u010c", <<"\\u010d">>>>, <<"\\u010e", <<"\\u010f">>>>,
       <<"\\u0110", <<"\\u0111">>>>, <<"\\u0112", <<"\\u0113">>>>,
       <<"\\u0114", <<"\\u0115">>>>, <<"\\u0116", <<"\\u0117">>>>,
       <<"\\u0118", <<"\\u0119">>>>, <<"\\u011a", <<"\\u011b">>>>,
       <<"\\u011c", <<"\\u011d">>>>, <<"\\u011e", <<"\\u011f">>>>,
       <<"\\u0120", <<"\\u0121">>>>, <<"\\u0122", <<"\\u0123">>>>,
       <<"\\u0124", <<"\\u0125">>>>, <<"\\u0126", <<"\\u0127">>>>,
       <<"\\u0128", <<"\\u0129">>>>, <<"\\u012a", <<"\\u012b">>>>,
       <<"\\u012c", <<"\\u012d">>>>, <<"\\u012e", <<"\\u012f">>>>,
       <<"\\u0130", <<"i", "\\u0307">>>>, <<"\\u0132", <<"\\u0133">>>>,
       <<"\\u0134", <<"\\u0135">>>>, <<"\\u0136", <<"\\u0137">>>>,
       <<"\\u0139", <<"\\u013a">>>>, <<"\\u013b", <<"\\u013c">>>>,
       <<"\\u013d", <<"\\u013e">>>>, <<"\\u013f", <<"\\u0140">>>>,
       <<"\\u0141", <<"\\u0142">>>>, <<"\\u0143", <<"\\u0144">>>>,
       <<"\\u0145", <<"\\u0146">>>>, <<"\\u0147", <<"\\u0148">>>>,
       <<"\\u014a", <<"\\u014b">>>>, <<"\\u014c", <<"\\u014d">>>>,
       <<"\\u014e", <<"\\u014f">>>>, <<"\\u0150", <<"\\u0151">>>>,
       <<"\\u0152", <<"\\u0153">>>>, <<"\\u0154", <<"\\u0155">>>>,
       <<"\\u0156", <<"\\u0157">>>>, <<"\\u0158", <<"\\u0159">>>>,
       <<"\\u015a", <<"\\u015b">>>>, <<"\\u015c", <<"\\u015d">>>>,
       <<"\\u015e", <<"\\u015f">>>>, <<"\\u0160", <<"\\u0161">>>>,
       <<"\\u0162", <<"\\u0163">>>>, <<"\\u0164", <<"\\u0165">>>>,
       <<"\\u0166", <<"\\u0167">>>>, <<"\\u0168", <<"\\u0169">>>>,
       <<"\\u016a", <<"\\u016b">>>>, <<"\\u016c", <<"\\u016d">>>>,
       <<"\\u016e", <<"\\u016f">>>>, <<"\\u0170", <<"\\u0171">>>>,
       <<"\\u0172", <<"\\u0173">>>>, <<"\\u0174", <<"\\u0175">>>>,
       <<"\\u0176", <<"\\u0177">>>>, <<"\\u0178", <<"ÿ">>>>,
       <<"\\u0179", <<"\\u017a">>>>, <<"\\u017b", <<"\\u017c">>>>,
       <<"\\u017d", <<"\\u017e">>>>, <<"\\u0370", <<"\\u0371">>>>,
       <<"\\u0372", <<"\\u0373">>>>, <<"\\u0376", <<"\\u0377">>>>,
       <<"\\u037f", <<"ϳ">>>>, <<"Ά", <<"ά">>>>, <<"Έ", <<"έ">>>>, <<"Ή", <<"ή">>>>,
       <<"Ί", <<"ί">>>>, <<"Ό", <<"ό">>>>, <<"Ύ", <<"ύ">>>>, <<"Ώ", <<"ώ">>>>,
       <<"Α", <<"α">>>>, <<"Β", <<"β">>>>, <<"Γ", <<"γ">>>>, <<"Δ", <<"δ">>>>,
       <<"Ε", <<"ε">>>>, <<"Ζ", <<"ζ">>>>, <<"Η", <<"η">>>>, <<"Θ", <<"θ">>>>,
       <<"Ι", <<"ι">>>>, <<"Κ", <<"κ">>>>, <<"Λ", <<"λ">>>>, <<"Μ", <<"μ">>>>,
       <<"Ν", <<"ν">>>>, <<"Ξ", <<"ξ">>>>, <<"Ο", <<"ο">>>>, <<"Π", <<"π">>>>,
       <<"Ρ", <<"ρ">>>>, <<"Σ", <<"σ">>>>, <<"Τ", <<"τ">>>>, <<"Υ", <<"υ">>>>,
       <<"Φ", <<"φ">>>>, <<"Χ", <<"χ">>>>, <<"Ψ", <<"ψ">>>>, <<"Ω", <<"ω">>>>,
       <<"Ϊ", <<"ϊ">>>>, <<"Ϋ", <<"ϋ">>>>, <<"Ϗ", <<"ϗ">>>>, <<"Ϙ", <<"ϙ">>>>,
       <<"Ϛ", <<"ϛ">>>>, <<"Ϝ", <<"ϝ">>>>, <<"Ϟ", <<"ϟ">>>>, <<"Ϡ", <<"ϡ">>>>,
       <<"Ϣ", <<"ϣ">>>>, <<"Ϥ", <<"ϥ">>>>, <<"Ϧ", <<"ϧ">>>>, <<"Ϩ", <<"ϩ">>>>,
       <<"Ϫ", <<"ϫ">>>>, <<"Ϭ", <<"ϭ">>>>, <<"Ϯ", <<"ϯ">>>>, <<"ϴ", <<"θ">>>>,
       <<"Ϸ", <<"ϸ">>>>, <<"Ϲ", <<"ϲ">>>>, <<"Ϻ", <<"ϻ">>>>, <<"Ͻ", <<"\\u037b">>>>,
       <<"Ͼ", <<"\\u037c">>>>, <<"Ͽ", <<"\\u037d">>>>, <<"\\u0400", <<"\\u0450">>>>,
       <<"\\u0401", <<"\\u0451">>>>, <<"\\u0402", <<"\\u0452">>>>,
       <<"\\u0403", <<"\\u0453">>>>, <<"\\u0404", <<"\\u0454">>>>,
       <<"\\u0405", <<"\\u0455">>>>, <<"\\u0406", <<"\\u0456">>>>,
       <<"\\u0407", <<"\\u0457">>>>, <<"\\u0408", <<"\\u0458">>>>,
       <<"\\u0409", <<"\\u0459">>>>, <<"\\u040a", <<"\\u045a">>>>,
       <<"\\u040b", <<"\\u045b">>>>, <<"\\u040c", <<"\\u045c">>>>,
       <<"\\u040d", <<"\\u045d">>>>, <<"\\u040e", <<"\\u045e">>>>,
       <<"\\u040f", <<"\\u045f">>>>, <<"\\u0410", <<"\\u0430">>>>,
       <<"\\u0411", <<"\\u0431">>>>, <<"\\u0412", <<"\\u0432">>>>,
       <<"\\u0413", <<"\\u0433">>>>, <<"\\u0414", <<"\\u0434">>>>,
       <<"\\u0415", <<"\\u0435">>>>, <<"\\u0416", <<"\\u0436">>>>,
       <<"\\u0417", <<"\\u0437">>>>, <<"\\u0418", <<"\\u0438">>>>,
       <<"\\u0419", <<"\\u0439">>>>, <<"\\u041a", <<"\\u043a">>>>,
       <<"\\u041b", <<"\\u043b">>>>, <<"\\u041c", <<"\\u043c">>>>,
       <<"\\u041d", <<"\\u043d">>>>, <<"\\u041e", <<"\\u043e">>>>,
       <<"\\u041f", <<"\\u043f">>>>, <<"\\u0420", <<"\\u0440">>>>,
       <<"\\u0421", <<"\\u0441">>>>, <<"\\u0422", <<"\\u0442">>>>,
       <<"\\u0423", <<"\\u0443">>>>, <<"\\u0424", <<"\\u0444">>>>,
       <<"\\u0425", <<"\\u0445">>>>, <<"\\u0426", <<"\\u0446">>>>,
       <<"\\u0427", <<"\\u0447">>>>, <<"\\u0428", <<"\\u0448">>>>,
       <<"\\u0429", <<"\\u0449">>>>, <<"\\u042a", <<"\\u044a">>>>,
       <<"\\u042b", <<"\\u044b">>>>, <<"\\u042c", <<"\\u044c">>>>,
       <<"\\u042d", <<"\\u044d">>>>, <<"\\u042e", <<"\\u044e">>>>,
       <<"\\u042f", <<"\\u044f">>>>, <<"\\u0460", <<"\\u0461">>>>,
       <<"\\u0462", <<"\\u0463">>>>, <<"\\u0464", <<"\\u0465">>>>,
       <<"\\u0466", <<"\\u0467">>>>, <<"\\u0468", <<"\\u0469">>>>,
       <<"\\u046a", <<"\\u046b">>>>, <<"\\u046c", <<"\\u046d">>>>,
       <<"\\u046e", <<"\\u046f">>>>, <<"\\u0470", <<"\\u0471">>>>,
       <<"\\u0472", <<"\\u0473">>>>, <<"\\u0474", <<"\\u0475">>>>,
       <<"\\u0476", <<"\\u0477">>>>, <<"\\u0478", <<"\\u0479">>>>,
       <<"\\u047a", <<"\\u047b">>>>, <<"\\u047c", <<"\\u047d">>>>,
       <<"\\u047e", <<"\\u047f">>>>, <<"Ҁ", <<"ҁ">>>>, <<"Ҋ", <<"ҋ">>>>,
       <<"Ҍ", <<"ҍ">>>>, <<"Ҏ", <<"ҏ">>>>, <<"Ґ", <<"ґ">>>>, <<"Ғ", <<"ғ">>>>,
       <<"Ҕ", <<"ҕ">>>>, <<"Җ", <<"җ">>>>, <<"Ҙ", <<"ҙ">>>>, <<"Қ", <<"қ">>>>,
       <<"Ҝ", <<"ҝ">>>>, <<"Ҟ", <<"ҟ">>>>, <<"Ҡ", <<"ҡ">>>>, <<"Ң", <<"ң">>>>,
       <<"Ҥ", <<"ҥ">>>>, <<"Ҧ", <<"ҧ">>>>, <<"Ҩ", <<"ҩ">>>>, <<"Ҫ", <<"ҫ">>>>,
       <<"Ҭ", <<"ҭ">>>>, <<"Ү", <<"ү">>>>, <<"Ұ", <<"ұ">>>>, <<"Ҳ", <<"ҳ">>>>,
       <<"Ҵ", <<"ҵ">>>>, <<"Ҷ", <<"ҷ">>>>, <<"Ҹ", <<"ҹ">>>>, <<"Һ", <<"һ">>>>,
       <<"Ҽ", <<"ҽ">>>>, <<"Ҿ", <<"ҿ">>>>, <<"Ӏ", <<"ӏ">>>>, <<"Ӂ", <<"ӂ">>>>,
       <<"Ӄ", <<"ӄ">>>>, <<"Ӆ", <<"ӆ">>>>, <<"Ӈ", <<"ӈ">>>>, <<"Ӊ", <<"ӊ">>>>,
       <<"Ӌ", <<"ӌ">>>>, <<"Ӎ", <<"ӎ">>>>, <<"Ӑ", <<"ӑ">>>>, <<"Ӓ", <<"ӓ">>>>,
       <<"Ӕ", <<"ӕ">>>>, <<"Ӗ", <<"ӗ">>>>, <<"Ә", <<"ә">>>>, <<"Ӛ", <<"ӛ">>>>,
       <<"Ӝ", <<"ӝ">>>>, <<"Ӟ", <<"ӟ">>>>, <<"Ӡ", <<"ӡ">>>>, <<"Ӣ", <<"ӣ">>>>,
       <<"Ӥ", <<"ӥ">>>>, <<"Ӧ", <<"ӧ">>>>, <<"Ө", <<"ө">>>>, <<"Ӫ", <<"ӫ">>>>,
       <<"Ӭ", <<"ӭ">>>>, <<"Ӯ", <<"ӯ">>>>, <<"Ӱ", <<"ӱ">>>>, <<"Ӳ", <<"ӳ">>>>,
       <<"Ӵ", <<"ӵ">>>>, <<"Ӷ", <<"ӷ">>>>, <<"Ӹ", <<"ӹ">>>>, <<"Ӻ", <<"ӻ">>>>,
       <<"Ӽ", <<"ӽ">>>>, <<"Ӿ", <<"ӿ">>>>>>)

\* the code units of the alphabet that are Cased and not Case_Ignorable, and
\* those that are Case_Ignorable
Cased ==
  {"A", "B", "C", "D", "E", "F", "G", "H", "I", "J", "K", "L", "M", "N", "O", "P", "Q",
   "R", "S", "T", "U", "V", "W", "X", "Y", "Z", "a", "b", "c", "d", "e", "f", "g", "h",
   "i", "j", "k", "l", "m", "n", "o", "p", "q", "r", "s", "t", "u", "v", "w", "x", "y",
   "z", "ª", "µ", "º", "À", "Á", "Â", "Ã", "Ä", "Å", "Æ", "Ç", "È", "É", "Ê", "Ë", "Ì",
   "Í", "Î", "Ï", "Ð", "Ñ", "Ò", "Ó", "Ô", "Õ", "Ö", "Ø", "Ù", "Ú", "Û", "Ü", "Ý", "Þ",
   "ß", "à", "á", "â", "ã", "ä", "å", "æ", "ç", "è", "é", "ê", "ë", "ì", "í", "î", "ï",
   "ð", "ñ", "ò", "ó", "ô", "õ", "ö", "ø", "ù", "ú", "û", "ü", "ý", "þ", "ÿ", "\\u0100",
   "\\u0101", "\\u0102", "\\u0103", "\\u0104", "\\u0105", "\\u0106", "\\u0107",
   "\\u0108", "\\u0109", "\\u010a", "\\u010b", "\\u010c", "\\u010d", "\\u010e",
   "\\u010f", "\\u0110", "\\u0111", "\\u0112", "\\u0113", "\\u0114", "\\u0115",
   "\\u0116", "\\u0117", "\\u0118", "\\u0119", "\\u011a", "\\u011b", "\\u011c",
   "\\u011d", "\\u011e", "\\u011f", "\\u0120", "\\u0121", "\\u0122", "\\u0123",
   "\\u0124", "\\u0125", "\\u0126", "\\u0127", "\\u0128", "\\u0129", "\\u012a",
   "\\u012b", "\\u012c", "\\u012d", "\\u012e", "\\u012f", "\\u0130", "\\u0131",
   "\\u0132", "\\u0133", "\\u0134", "\\u0135", "\\u0136", "\\u0137", "\\u0138",
   "\\u0139", "\\u013a", "\\u013b", "\\u013c", "\\u013d", "\\u013e", "\\u013f",
   "\\u0140", "\\u0141", "\\u0142", "\\u0143", "\\u0144", "\\u0145", "\\u0146",
   "\\u0147", "\\u0148", "\\u0149", "\\u014a", "\\u014b", "\\u014c", "\\u014d",
   "\\u014e", "\\u014f", "\\u0150", "\\u0151", "\\u0152", "\\u0153", "\\u0154",
   "\\u0155", "\\u0156", "\\u0157", "\\u0158", "\\u0159", "\\u015a", "\\u015b",
   "\\u015c", "\\u015d", "\\u015e", "\\u015f", "\\u0160", "\\u0161", "\\u0162",
   "\\u0163", "\\u0164", "\\u0165", "\\u0166", "\\u0167", "\\u0168", "\\u0169",
   "\\u016a", "\\u016b", "\\u016c", "\\u016d", "\\u016e", "\\u016f", "\\u0170",
   "\\u0171", "\\u0172", "\\u0173", "\\u0174", "\\u0175", "\\u0176", "\\u0177",
   "\\u0178", "\\u0179", "\\u017a", "\\u017b", "\\u017c", "\\u017d", "\\u017e",
   "\\u017f", "\\u0370", "\\u0371", "\\u0372", "\\u0373", "\\u0376", "\\u0377",
   "\\u037b", "\\u037c", "\\u037d", "\\u037f", "Ά", "Έ", "Ή", "Ί", "Ό", "Ύ", "Ώ", "ΐ",
   "Α", "Β", "Γ", "Δ", "Ε", "Ζ", "Η", "Θ", "Ι", "Κ", "Λ", "Μ", "Ν", "Ξ", "Ο", "Π", "Ρ",
   "Σ", "Τ", "Υ", "Φ", "Χ", "Ψ", "Ω", "Ϊ", "Ϋ", "ά", "έ", "ή", "ί", "ΰ", "α", "β", "γ",
   "δ", "ε", "ζ", "η", "θ", "ι", "κ", "λ", "μ", "ν", "ξ", "ο", "π", "ρ", "ς", "σ", "τ",
   "υ", "φ", "χ", "ψ", "ω", "ϊ", "ϋ", "ό", "ύ", "ώ", "Ϗ", "ϐ", "ϑ", "ϒ", "ϓ", "ϔ", "ϕ",
   "ϖ", "ϗ", "Ϙ", "ϙ", "Ϛ", "ϛ", "Ϝ", "ϝ", "Ϟ", "ϟ", "Ϡ", "ϡ", "Ϣ", "ϣ", "Ϥ", "ϥ", "Ϧ",
   "ϧ", "Ϩ", "ϩ", "Ϫ", "ϫ", "Ϭ", "ϭ", "Ϯ", "ϯ", "ϰ", "ϱ", "ϲ", "ϳ", "ϴ", "ϵ", "Ϸ", "ϸ",
   "Ϲ", "Ϻ", "ϻ", "ϼ", "Ͻ", "Ͼ", "Ͽ", "\\u0400", "\\u0401", "\\u0402", "\\u0403",
   "\\u0404", "\\u0405", "\\u0406", "\\u0407", "\\u0408", "\\u0409", "\\u040a",
   "\\u040b", "\\u040c", "\\u040d", "\\u040e", "\\u040f", "\\u0410", "\\u0411",
   "\\u0412", "\\u0413", "\\u0414", "\\u0415", "\\u0416", "\\u0417", "\\u0418",
   "\\u0419", "\\u041a", "\\u041b", "\\u041c", "\\u041d", "\\u041e", "\\u041f",
   "\\u0420", "\\u0421", "\\u0422", "\\u0423", "\\u0424", "\\u0425", "\\u0426",
   "\\u0427", "\\u0428", "\\u0429", "\\u042a", "\\u042b", "\\u042c", "\\u042d",
   "\\u042e", "\\u042f", "\\u0430", "\\u0431", "\\u0432", "\\u0433", "\\u0434",
   "\\u0435", "\\u0436", "\\u0437", "\\u0438", "\\u0439", "\\u043a", "\\u043b",
   "\\u043c", "\\u043d", "\\u043e", "\\u043f", "\\u0440", "\\u0441", "\\u0442",
   "\\u0443", "\\u0444", "\\u0445", "\\u0446", "\\u0447", "\\u0448", "\\u0449",
   "\\u044a", "\\u044b", "\\u044c", "\\u044d", "\\u044e", "\\u044f", "\\u0450",
   "\\u0451", "\\u0452", "\\u0453", "\\u0454", "\\u0455", "\\u0456", "\\u0457",
   "\\u0458", "\\u0459", "\\u045a", "\\u045b", "\\u045c", "\\u045d", "\\u045e",
   "\\u045f", "\\u0460", "\\u0461", "\\u0462", "\\u0463", "\\u0464", "\\u0465",
   "\\u0466", "\\u0467", "\\u0468", "\\u0469", "\\u046a", "\\u046b", "\\u046c",
   "\\u046d", "\\u046e", "\\u046f", "\\u0470", "\\u0471", "\\u0472", "\\u0473",
   "\\u0474", "\\u0475", "\\u0476", "\\u0477", "\\u0478", "\\u0479", "\\u047a",
   "\\u047b", "\\u047c", "\\u047d", "\\u047e", "\\u047f", "Ҁ", "ҁ", "Ҋ", "ҋ", "Ҍ", "ҍ",
   "Ҏ", "ҏ", "Ґ", "ґ", "Ғ", "ғ", "Ҕ", "ҕ", "Җ", "җ", "Ҙ", "ҙ", "Қ", "қ", "Ҝ", "ҝ", "Ҟ",
   "ҟ", "Ҡ", "ҡ", "Ң", "ң", "Ҥ", "ҥ", "Ҧ", "ҧ", "Ҩ", "ҩ", "Ҫ", "ҫ", "Ҭ", "ҭ", "Ү", "ү",
   "Ұ", "ұ", "Ҳ", "ҳ", "Ҵ", "ҵ", "Ҷ", "ҷ", "Ҹ", "ҹ", "Һ", "һ", "Ҽ", "ҽ", "Ҿ", "ҿ", "Ӏ",
   "Ӂ", "ӂ", "Ӄ", "ӄ", "Ӆ", "ӆ", "Ӈ", "ӈ", "Ӊ", "ӊ", "Ӌ", "ӌ", "Ӎ", "ӎ", "ӏ", "Ӑ", "ӑ",
   "Ӓ", "ӓ", "Ӕ", "ӕ", "Ӗ", "ӗ", "Ә", "ә", "Ӛ", "ӛ", "Ӝ", "ӝ", "Ӟ", "ӟ", "Ӡ", "ӡ", "Ӣ",
   "ӣ", "Ӥ", "ӥ", "Ӧ", "ӧ", "Ө", "ө", "Ӫ", "ӫ", "Ӭ", "ӭ", "Ӯ", "ӯ", "Ӱ", "ӱ", "Ӳ", "ӳ",
   "Ӵ", "ӵ", "Ӷ", "ӷ", "Ӹ", "ӹ", "Ӻ", "ӻ", "Ӽ", "ӽ", "Ӿ", "ӿ"}

CaseIgnorable ==
  {"'", ".", ":", "^", "\\u0060", "¨", "­", "¯", "´", "·", "¸", "\\u0300", "\\u0301",
   "\\u0302", "\\u0303", "\\u0304", "\\u0305", "\\u0306", "\\u0307", "\\u0308",
   "\\u0309", "\\u030a", "\\u030b", "\\u030c", "\\u030d", "\\u030e", "\\u030f",
   "\\u0310", "\\u0311", "\\u0312", "\\u0313", "\\u0314", "\\u0315", "\\u0316",
   "\\u0317", "\\u0318", "\\u0319", "\\u031a", "\\u031b", "\\u031c", "\\u031d",
   "\\u031e", "\\u031f", "\\u0320", "\\u0321", "\\u0322", "\\u0323", "\\u0324",
   "\\u0325", "\\u0326", "\\u0327", "\\u0328", "\\u0329", "\\u032a", "\\u032b",
   "\\u032c", "\\u032d", "\\u032e", "\\u032f", "\\u0330", "\\u0331", "\\u0332",
   "\\u0333", "\\u0334", "\\u0335", "\\u0336", "\\u0337", "\\u0338", "\\u0339",
   "\\u033a", "\\u033b", "\\u033c", "\\u033d", "\\u033e", "\\u033f", "\\u0340",
   "\\u0341", "\\u0342", "\\u0343", "\\u0344", "\\u0345", "\\u0346", "\\u0347",
   "\\u0348", "\\u0349", "\\u034a", "\\u034b", "\\u034c", "\\u034d", "\\u034e",
   "\\u034f", "\\u0350", "\\u0351", "\\u0352", "\\u0353", "\\u0354", "\\u0355",
   "\\u0356", "\\u0357", "\\u0358", "\\u0359", "\\u035a", "\\u035b", "\\u035c",
   "\\u035d", "\\u035e", "\\u035f", "\\u0360", "\\u0361", "\\u0362", "\\u0363",
   "\\u0364", "\\u0365", "\\u0366", "\\u0367", "\\u0368", "\\u0369", "\\u036a",
   "\\u036b", "\\u036c", "\\u036d", "\\u036e", "\\u036f", "\\u0374", "\\u0375",
   "\\u037a", "΄", "΅", "·", "҃", "҄", "҅", "҆", "҇", "҈", "҉"}

\* c.toUpperCase() of a single code unit of the alphabet
ToUpperChar(c) ==
  LET Image(map, x) == IF x \in DOMAIN map THEN map[x] ELSE <<x>>
      Images(map, alphabet) == [x \in alphabet |-> Image(map, x)]
  IN  Images(UpperMap, Alphabet)[c]

\* c.toLowerCase() of a single code unit of the alphabet
ToLowerChar(c) ==
  LET Image(map, x) == IF x \in DOMAIN map THEN map[x] ELSE <<x>>
      Images(map, alphabet) == [x \in alphabet |-> Image(map, x)]
  IN  Images(LowerMap, Alphabet)[c]

\* seqs[lo] \o ... \o seqs[hi]
RECURSIVE FlattenRange(_, _, _)
FlattenRange(seqs, lo, hi) ==
  IF lo > hi THEN <<>>
  ELSE IF lo = hi THEN seqs[lo]
  ELSE FlattenRange(seqs, lo, (lo + hi) \div 2)
         \o FlattenRange(seqs, (lo + hi) \div 2 + 1, hi)

\* s.toUpperCase(), code unit by code unit
ToUpperCase(s) == FlattenRange([j \in 1..Len(s) |-> ToUpperChar(s[j])], 1, Len(s))

\* s.toLowerCase(): as toUpperCase, and a capital sigma takes its final form
\* after a cased letter and not before one, case-ignorable code units between
\* them skipped (Final_Sigma)
ToLowerCase(s) ==
  LET FinalSigma(cased, ignorable, j) ==
        LET Kept(from, to) == {i \in from..to : s[i] \notin ignorable}
            Final(before, after) ==
              /\ before # {}
              /\ s[Max(before)] \in cased
              /\ after = {} \/ s[Min(after)] \notin cased
        IN  Final(Kept(1, j - 1), Kept(j + 1, Len(s)))
      Image(cased, ignorable, j) ==
        IF s[j] = "Σ" /\ FinalSigma(cased, ignorable, j) THEN <<"ς">>
        ELSE ToLowerChar(s[j])
      Images(cased, ignorable) == [j \in 1..Len(s) |-> Image(cased, ignorable, j)]
  IN  FlattenRange(Images(Cased, CaseIgnorable), 1, Len(s))

\* ------------------------------------------------------------------------
\* Utility functions (build.ts 59-131)
\* ------------------------------------------------------------------------
HexChars == <<"0", "1", "2", "3", "4", "5", "6", "7", "8", "9",
              "a", "b", "c", "d", "e", "f">>

HexDigits == {HexChars[k] : k \in 1..16} \cup {UpperChars[k] : k \in 1..6}

DigitValue(c) == (CHOOSE k \in 1..16 : HexChars[k] = c \/ (k > 10 /\ UpperChars[k - 10] = c)) - 1

\* the value of a run of digits in a radix, most significant digit first
RECURSIVE DigitsValue(_, _, _)
DigitsValue(s, radix, acc) ==
  IF s = <<>> THEN acc
  ELSE DigitsValue(Tail(s), radix, acc * radix + DigitValue(Head(s)))

\* parseInt(s) without a radix: white space, a sign, an optional 0x prefix,
\* then the longest run of digits; NaN when the run is empty
ParseInt(s) ==
  LET t    == TrimStart(s)
      neg  == t # <<>> /\ Head(t) = "-"
      u    == IF t # <<>> /\ Head(t) \in {"-", "+"} THEN Tail(t) ELSE t
      hex  == StartsWith(u, <<"0", "x">>) \/ StartsWith(u, <<"0", "X">>)
      body == IF hex THEN Drop(u, 2) ELSE u
      set  == IF hex THEN HexDigits ELSE Digits
      n    == RunLen(body, set)
      v    == DigitsValue(Take(body, n), IF hex THEN 16 ELSE 10, 0)
  IN  IF n = 0 THEN [nan |-> TRUE, val |-> 0]
      ELSE [nan |-> FALSE, val |-> IF neg THEN 0 - v ELSE v]

fixFEN(fen) ==
  LET fenParts == Split(fen, " ")
  IN  IF Len(fenParts) >= 6
      THEN LET fullmoveNumber == ParseInt(fenParts[6])
           IN  IF ~fullmoveNumber.nan /\ fullmoveNumber.val = 0
               THEN Join([fenParts EXCEPT ![6] = <<"1">>], <<" ">>)
               ELSE fen
      ELSE fen

\* calculateOrientation with the two types taken for each other
calculateOrientation_TypesSwapped(fen, type) ==
  LET fenParts == Split(fen, " ")
  IN  IF Len(fenParts) < 2 THEN [ok |-> FALSE, val |-> <<>>]
      ELSE LET sideToMove == fenParts[2]
           IN  IF type = "static"
               THEN [ok |-> TRUE,
                     val |-> IF sideToMove = <<"w">> THEN "black" ELSE "white"]
               ELSE [ok |-> TRUE,
                     val |-> IF sideToMove = <<"w">> THEN "white" ELSE "black"]

\* calculateOrientation: ok = FALSE is the thrown "Invalid FEN format"
calculateOrientation(fen, type) ==
  LET fenParts == Split(fen, " ")
  IN  IF Len(fenParts) < 2 THEN [ok |-> FALSE, val |-> <<>>]
      ELSE LET sideToMove == fenParts[2]
           IN  IF type = "dynamic"
               THEN [ok |-> TRUE,
                     val |-> IF sideToMove = <<"w">> THEN "black" ELSE "white"]
               ELSE [ok |-> TRUE,
                     val |-> IF sideToMove = <<"w">> THEN "white" ELSE "black"]

PgnExt == <<".", "p", "g", "n">>

\* basename(filename, ".pgn") of a name without directory separators; the
\* name ".pgn" itself gives the empty string
BasenameNoExt(filename) ==
  IF EndsWith(filename, PgnExt)
  THEN Take(filename, Len(filename) - Len(PgnExt))
  ELSE filename

\* the length of the match of /^\d+_/ at the start of s, 0 when none
NumberPrefixLen(s) ==
  LET n == RunLen(s, Digits)
  IN  IF n >= 1 /\ Len(s) > n /\ s[n + 1] = "_" THEN n + 1 ELSE 0

\* word.charAt(0).toUpperCase() + word.slice(1).toLowerCase()
Capitalize(word) ==
  IF word = <<>> THEN <<>>
  ELSE ToUpperChar(Head(word)) \o ToLowerCase(Tail(word))

extractMotive(filename) ==
  LET nameWithoutExt == BasenameNoExt(filename)
      motivePart     == Drop(nameWithoutExt, NumberPrefixLen(nameWithoutExt))
      words          == Split(motivePart, "_")
  IN  Join([k \in 1..Len(words) |-> Capitalize(words[k])], <<" ">>)

extractFileNumber(filename) ==
  LET n == NumberPrefixLen(filename)
  IN  IF n = 0 THEN Null ELSE Take(filename, n - 1)

extractMotiveSlug(filename) ==
  LET nameWithoutExt == BasenameNoExt(filename)
      motivePart     == Drop(nameWithoutExt, NumberPrefixLen(nameWithoutExt))
  IN  ToLowerCase(motivePart)

\* Slice taking one element less
Slice_OneShort(arr, i, size) ==
  SubSeq(arr, i + 1, IF i + size - 1 > Len(arr) THEN Len(arr) ELSE i + size - 1)

\* arr.slice(i, i + size) with a 0-based i
Slice(arr, i, size) ==
  SubSeq(arr, i + 1, IF i + size > Len(arr) THEN Len(arr) ELSE i + size)

RECURSIVE ChunkLoop(_, _, _, _)
ChunkLoop(arr, size, i, chunks) ==
  IF i < Len(arr)
  THEN ChunkLoop(arr, size, i + size, Append(chunks, Slice(arr, i, size)))
  ELSE chunks

splitIntoChunks(arr, size) ==
  IF size <= 0 THEN <<arr>> ELSE ChunkLoop(arr, size, 0, <<>>)

\* ChunkSize with one puzzle per file when puzzlesPerFile is not set
ChunkSize_DefaultsToOne(info, n) ==
  IF "puzzlesPerFile" \in DOMAIN info /\ info.puzzlesPerFile # 0
  THEN info.puzzlesPerFile
  ELSE 1

\* info.puzzlesPerFile || allPuzzles.length: an absent field and 0 are falsy
ChunkSize(info, n) ==
  IF "puzzlesPerFile" \in DOMAIN info /\ info.puzzlesPerFile # 0
  THEN info.puzzlesPerFile
  ELSE n

\* ------------------------------------------------------------------------
\* PGN parsing (build.ts 140-215)
\* ------------------------------------------------------------------------
Quote == "\""

\* /\r\n/ at s[k]
MatchCRLF(s, k) == IF s[k] = "\r" /\ k < Len(s) /\ s[k + 1] = "\n" THEN 2 ELSE 0

\* pgnContent.replace(/\r\n/g, "\n")
ReplaceCRLF(s) == ReplaceAll([k \in 1..Len(s) |-> MatchCRLF(s, k)], s, <<"\n">>)

\* .replace(/\r/g, "\n")
ReplaceCR(s) == [k \in 1..Len(s) |-> IF s[k] = "\r" THEN "\n" ELSE s[k]]

NormalizedLines(pgnContent) == Split(ReplaceCR(ReplaceCRLF(pgnContent)), "\n")

\* the capture of /\[Tag\s+"([^"]+)"\]/ matched at the start of s, or Null
TagMatchAt(s, tag) ==
  IF ~StartsWith(s, <<"[">> \o tag) THEN Null
  ELSE LET r1 == Drop(s, Len(tag) + 1)
           ws == RunLen(r1, SpaceChars)
           r2 == Drop(r1, ws)
       IN  IF ws = 0 \/ r2 = <<>> \/ Head(r2) # Quote THEN Null
           ELSE LET r3 == Tail(r2)
                    qs == {k \in 1..Len(r3) : r3[k] = Quote}
                    n  == IF qs = {} THEN Len(r3) ELSE Min(qs) - 1
                IN  IF n >= 1 /\ Len(r3) >= n + 2 /\ r3[n + 1] = Quote /\ r3[n + 2] = "]"
                    THEN Take(r3, n)
                    ELSE Null

\* line.match(/\[Tag\s+"([^"]+)"\]/): the leftmost match anywhere in the line
TagMatch(s, tag) ==
  LET hits == {k \in 1..Len(s) : s[k] = "[" /\ TagMatchAt(Drop(s, k - 1), tag) # Null}
  IN  IF hits = {} THEN Null ELSE TagMatchAt(Drop(s, Min(hits) - 1), tag)

OriginalIDTag == <<"O", "r", "i", "g", "i", "n", "a", "l", "I", "D">>

EventTag == <<"E", "v", "e", "n", "t">>

FENTag == <<"F", "E", "N">>

\* The local state of one parsePGN call
ScanInit ==
  [currentFen |-> Null, currentOriginalId |-> Null, currentMoves |-> <<>>,
   puzzleIndex |-> 0, puzzles |-> <<>>]

\* savePuzzle without the reset of currentOriginalId
savePuzzle_KeepsId(st) ==
  LET emit == Truthy(st.currentFen) /\ Len(st.currentMoves) > 0
      idx  == st.puzzleIndex + 1
      rec  == [fen |-> st.currentFen,
               moves |-> Trim(Join(st.currentMoves, <<" ">>)),
               originalId |-> IF Truthy(st.currentOriginalId)
                              THEN st.currentOriginalId
                              ELSE NumberToString(idx)]
  IN  [currentFen |-> Null, currentOriginalId |-> st.currentOriginalId,
       currentMoves |-> <<>>,
       puzzleIndex |-> IF emit THEN idx ELSE st.puzzleIndex,
       puzzles |-> IF emit THEN Append(st.puzzles, rec) ELSE st.puzzles]

savePuzzle(st) ==
  LET emit == Truthy(st.currentFen) /\ Len(st.currentMoves) > 0
      idx  == st.puzzleIndex + 1
      rec  == [fen |-> st.currentFen,
               moves |-> Trim(Join(st.currentMoves, <<" ">>)),
               originalId |-> IF Truthy(st.currentOriginalId)
                              THEN st.currentOriginalId
                              ELSE NumberToString(idx)]
  IN  [currentFen |-> Null, currentOriginalId |-> Null, currentMoves |-> <<>>,
       puzzleIndex |-> IF emit THEN idx ELSE st.puzzleIndex,
       puzzles |-> IF emit THEN Append(st.puzzles, rec) ELSE st.puzzles]

\* One iteration of the loop over the lines
ScanLine(st, rawLine) ==
  LET line == Trim(rawLine)
  IN  IF StartsWith(line, <<"[">> \o OriginalIDTag)
      THEN LET saved == savePuzzle(st)
               match == TagMatch(line, OriginalIDTag)
           IN  IF match # Null THEN [saved EXCEPT !.currentOriginalId = match]
               ELSE saved
      ELSE IF StartsWith(line, <<"[">> \o EventTag) THEN savePuzzle(st)
      ELSE IF StartsWith(line, <<"[">> \o FENTag)
      THEN LET fenMatch == TagMatch(line, FENTag)
           IN  IF fenMatch # Null /\ Truthy(fenMatch)
               THEN [st EXCEPT !.currentFen = fixFEN(fenMatch)]
               ELSE st
      ELSE IF StartsWith(line, <<"[">>) THEN st
      ELSE IF Len(line) = 0 THEN st
      ELSE [st EXCEPT !.currentMoves = Append(@, line)]

RECURSIVE ScanLoop(_, _)
ScanLoop(st, lines) ==
  IF lines = <<>> THEN st ELSE ScanLoop(ScanLine(st, Head(lines)), Tail(lines))

parsePGN(pgnContent) ==
  savePuzzle(ScanLoop(ScanInit, NormalizedLines(pgnContent))).puzzles

\* ------------------------------------------------------------------------
\* The rules engine (chess.js), as far as the positions and moves of the
\* model go: the initial position and the moves e4, Nf3 (White) and e5 (Black)
\* ------------------------------------------------------------------------
FenBoardStart ==
  <<"r", "n", "b", "q", "k", "b", "n", "r", "/", "p", "p", "p", "p", "p",
    "p", "p", "p", "/", "8", "/", "8", "/", "8", "/", "8", "/", "P", "P",
    "P", "P", "P", "P", "P", "P", "/", "R", "N", "B", "Q", "K", "B", "N",
    "R">>

FenBoardAfterE4 ==
  <<"r", "n", "b", "q", "k", "b", "n", "r", "/", "p", "p", "p", "p", "p",
    "p", "p", "p", "/", "8", "/", "8", "/", "4", "P", "3", "/", "8", "/",
    "P", "P", "P", "P", "1", "P", "P", "P", "/", "R", "N", "B", "Q", "K",
    "B", "N", "R">>

\* a position: who is to move and which of the three moves have been played
NoEngine == [valid |-> FALSE, turn |-> "w", e4 |-> FALSE, nf3 |-> FALSE, e5 |-> FALSE]

\* new Chess(fen): valid = FALSE is the exception thrown for a string that is
\* no valid FEN
NewChess(fen) ==
  IF fen = FenBoardStart \o <<" ", "w", " ", "K", "Q", "k", "q", " ", "-", " ", "0", " ", "1">>
  THEN [valid |-> TRUE, turn |-> "w", e4 |-> FALSE, nf3 |-> FALSE, e5 |-> FALSE]
  ELSE IF fen = FenBoardAfterE4 \o <<" ", "b", " ", "K", "Q", "k", "q", " ", "-", " ", "0", " ", "1">>
  THEN [valid |-> TRUE, turn |-> "b", e4 |-> TRUE, nf3 |-> FALSE, e5 |-> FALSE]
  ELSE NoEngine

\* chess.move(san, { strict: false }): ok = FALSE is the exception thrown for
\* a move that is not legal in the position, which then stays as it is
ChessMove(chess, san) ==
  IF chess.turn = "w" /\ san = <<"e", "4">> /\ ~chess.e4
  THEN [ok |-> TRUE, from |-> <<"e", "2">>, to |-> <<"e", "4">>,
        chess |-> [chess EXCEPT !.turn = "b", !.e4 = TRUE]]
  ELSE IF chess.turn = "w" /\ san = <<"N", "f", "3">> /\ ~chess.nf3
  THEN [ok |-> TRUE, from |-> <<"g", "1">>, to |-> <<"f", "3">>,
        chess |-> [chess EXCEPT !.turn = "b", !.nf3 = TRUE]]
  ELSE IF chess.turn = "b" /\ san = <<"e", "5">> /\ ~chess.e5
  THEN [ok |-> TRUE, from |-> <<"e", "7">>, to |-> <<"e", "5">>,
        chess |-> [chess EXCEPT !.turn = "w", !.e5 = TRUE]]
  ELSE [ok |-> FALSE, from |-> <<>>, to |-> <<>>, chess |-> chess]

\* ------------------------------------------------------------------------
\* Move decoding (build.ts 220-268)
\* ------------------------------------------------------------------------
LitAt(s, k, lit) == k + Len(lit) - 1 <= Len(s) /\ SubSeq(s, k, k + Len(lit) - 1) = lit

ResultMarkers ==
  << <<"*">>, <<"1", "-", "0">>, <<"0", "-", "1">>,
     <<"1", "/", "2", "-", "1", "/", "2">> >>

\* /\s+\*|\s+1-0|\s+0-1|\s+1\/2-1\/2/ at s[k]
MatchResultMarker(s, k) ==
  LET w    == RunLenAt(s, k, SpaceChars)
      alts == {a \in 1..Len(ResultMarkers) : LitAt(s, k + w, ResultMarkers[a])}
  IN  IF w >= 1 /\ alts # {} THEN w + Len(ResultMarkers[Min(alts)]) ELSE 0

\* /\([^)]*\)/ and /\{[^}]*\}/ at s[k]
MatchBracketed(s, k, open, close) ==
  LET ends == {j \in (k + 1)..Len(s) : s[j] = close}
  IN  IF s[k] = open /\ ends # {} THEN Min(ends) - k + 1 ELSE 0

MatchParens(s, k) == MatchBracketed(s, k, "(", ")")

MatchBraces(s, k) == MatchBracketed(s, k, "{", "}")

Ellipsis == <<".", ".", ".">>

\* /\d+\.\s*\.\.\.\s*/ at s[k]
MatchNumberEllipsis(s, k) ==
  LET d  == RunLenAt(s, k, Digits)
      w  == RunLenAt(s, k + d + 1, SpaceChars)
      w2 == RunLenAt(s, k + d + 1 + w + 3, SpaceChars)
  IN  IF d >= 1 /\ LitAt(s, k + d, <<".">>) /\ LitAt(s, k + d + 1 + w, Ellipsis)
      THEN d + 1 + w + 3 + w2
      ELSE 0

\* /\d+\.\s*/ at s[k]
MatchNumberDot(s, k) ==
  LET d == RunLenAt(s, k, Digits)
  IN  IF d >= 1 /\ LitAt(s, k + d, <<".">>)
      THEN d + 1 + RunLenAt(s, k + d + 1, SpaceChars)
      ELSE 0

\* /\.\.\./ at s[k]
MatchEllipsis(s, k) == IF LitAt(s, k, Ellipsis) THEN 3 ELSE 0

\* cleanMoves.replace(/[()\[\]]/g, " ")
ReplaceBrackets(s) ==
  [k \in 1..Len(s) |-> IF s[k] \in {"(", ")", "[", "]"} THEN " " ELSE s[k]]

\* lines 225-241
CleanMoves(movesString) ==
  LET NoResult(s) ==
        ReplaceAll([k \in 1..Len(s) |-> MatchResultMarker(s, k)], s, <<>>)
      NoParens(s) == ReplaceAll([k \in 1..Len(s) |-> MatchParens(s, k)], s, <<>>)
      NoBraces(s) == ReplaceAll([k \in 1..Len(s) |-> MatchBraces(s, k)], s, <<>>)
      NoNumberEllipsis(s) ==
        ReplaceAll([k \in 1..Len(s) |-> MatchNumberEllipsis(s, k)], s, <<>>)
      NoNumberDot(s) == ReplaceAll([k \in 1..Len(s) |-> MatchNumberDot(s, k)], s, <<>>)
      NoEllipsis(s) == ReplaceAll([k \in 1..Len(s) |-> MatchEllipsis(s, k)], s, <<>>)
  IN  ReplaceBrackets(
        Trim(NoEllipsis(NoNumberDot(NoNumberEllipsis(
          NoBraces(NoParens(Trim(NoResult(movesString)))))))))

\* s.split(/\s+/): the pieces between the runs of white space, with an empty
\* piece before a leading and after a trailing run
SplitSpaces(s) ==
  LET starts == {k \in 1..Len(s) :
                   s[k] \notin SpaceChars /\ (k = 1 \/ s[k - 1] \in SpaceChars)}
      n      == Cardinality(starts)
      word(j) == LET b == Nth(starts, j)
                     stops == {k \in b..Len(s) : s[k] \in SpaceChars}
                 IN  SubSeq(s, b, IF stops = {} THEN Len(s) ELSE Min(stops) - 1)
      words  == [j \in 1..n |-> word(j)]
      lead   == IF s = <<>> \/ s[1] \in SpaceChars THEN << <<>> >> ELSE <<>>
      trail  == IF s # <<>> /\ s[Len(s)] \in SpaceChars THEN << <<>> >> ELSE <<>>
  IN  lead \o words \o trail

\* the filter of lines 244-251
IsMoveToken(token) ==
  LET trimmed == Trim(token)
  IN  /\ Len(trimmed) > 0
      /\ trimmed # <<".">>
      /\ trimmed # <<".", ".">>
      /\ ~(\A k \in 1..Len(trimmed) : trimmed[k] = ".")
      /\ ~(\A k \in 1..Len(trimmed) : trimmed[k] \in Digits)

MoveTokens(movesString) == SelectSeq(SplitSpaces(CleanMoves(movesString)), IsMoveToken)

\* TryMove with a rejected token passing the move to the other side
TryMove_RejectedTokenMoves(dec, sanMove) ==
  LET trimmed == Trim(sanMove)
      move    == ChessMove(dec.chess, trimmed)
  IN  IF Len(trimmed) = 0 THEN dec
      ELSE IF move.ok
      THEN [chess |-> move.chess,
            solution |-> Append(dec.solution, [from |-> move.from, to |-> move.to])]
      ELSE [dec EXCEPT !.chess.turn = IF @ = "w" THEN "b" ELSE "w"]

\* One iteration of the loop of lines 253-265 on dec = [chess, solution]
TryMove(dec, sanMove) ==
  LET trimmed == Trim(sanMove)
      move    == ChessMove(dec.chess, trimmed)
  IN  IF Len(trimmed) = 0 THEN dec
      ELSE IF move.ok
      THEN [chess |-> move.chess,
            solution |-> Append(dec.solution, [from |-> move.from, to |-> move.to])]
      ELSE dec

RECURSIVE ReplayLoop(_, _)
ReplayLoop(dec, tokens) ==
  IF tokens = <<>> THEN dec ELSE ReplayLoop(TryMove(dec, Head(tokens)), Tail(tokens))

\* parseMoves: threw = TRUE is the exception of new Chess(fen), thrown out of
\* the function (line 221 is outside the try of lines 257-264)
parseMoves(fen, movesString) ==
  LET chess == NewChess(fen)
  IN  IF ~chess.valid THEN [threw |-> TRUE, solution |-> <<>>]
      ELSE [threw |-> FALSE,
            solution |-> ReplayLoop([chess |-> chess, solution |-> <<>>],
                                    MoveTokens(movesString)).solution]

\* lines 383-406 for one record: the item pushed on allPuzzles, with
\* kind "pushed", or no item, with kind "skipped" (WARN) or "error" (ERROR)
AssemblePuzzle(raw, info, motive) ==
  LET Assembled(parsed, orientation) ==
        IF parsed.threw THEN [kind |-> "error"]
        ELSE IF Len(parsed.solution) = 0 THEN [kind |-> "skipped"]
        ELSE IF ~orientation.ok THEN [kind |-> "error"]
        ELSE [kind |-> "pushed",
              puzzle |-> [puzzleId |-> <<>>, fen |-> raw.fen,
                          type |-> info.defaultType,
                          orientation |-> orientation.val,
                          solution |-> parsed.solution,
                          source |-> info.source, motive |-> motive],
              originalId |-> raw.originalId]
  IN  Assembled(parseMoves(raw.fen, raw.moves),
                calculateOrientation(raw.fen, info.defaultType))

\* ------------------------------------------------------------------------
\* processCollection (build.ts 335-456)
\* ------------------------------------------------------------------------
\* the characters of file names in the order of their UTF-16 code units
CodeOrder ==
  <<"-", ".">> \o DigitChars \o UpperChars \o <<"_">> \o LowerChars \o <<"É", "é">>

CharCode(c) == CHOOSE k \in 1..Len(CodeOrder) : CodeOrder[k] = c

\* a < b as Array.prototype.sort() compares strings
StringLess(a, b) ==
  LET m     == IF Len(a) < Len(b) THEN Len(a) ELSE Len(b)
      diffs == {k \in 1..m : a[k] # b[k]}
  IN  IF diffs = {} THEN Len(a) < Len(b)
      ELSE CharCode(a[Min(diffs)]) < CharCode(b[Min(diffs)])

\* files.filter(f => f.endsWith(".pgn")).sort(), on the files of a folder
SortedPgnFiles(files) ==
  LET pgnFiles == {f \in files : EndsWith(f.name, PgnExt)}
  IN  [k \in 1..Cardinality(pgnFiles) |->
         CHOOSE f \in pgnFiles :
           Cardinality({g \in pgnFiles : StringLess(g.name, f.name)}) = k - 1]

\* lines 383-406: the items of allPuzzles for the records of a file
RECURSIVE AllPuzzles(_, _, _)
AllPuzzles(rawPuzzles, info, motive) ==
  IF rawPuzzles = <<>> THEN <<>>
  ELSE LET Pushed(item) ==
             IF item.kind = "pushed"
             THEN <<[puzzle |-> item.puzzle, originalId |-> item.originalId]>>
             ELSE <<>>
       IN  Pushed(AssemblePuzzle(Head(rawPuzzles), info, motive))
             \o AllPuzzles(Tail(rawPuzzles), info, motive)

Dash == <<"-">>

\* lines 428-430, with every ID given a part number
PuzzleId_AlwaysWithPart(info, fileNumber, partNumber, originalId, needsSplit) ==
  info.puzzleIdPrefix \o Dash \o fileNumber \o Dash \o NumberToString(partNumber)
    \o Dash \o originalId

\* lines 428-430
PuzzleId(info, fileNumber, partNumber, originalId, needsSplit) ==
  IF needsSplit
  THEN info.puzzleIdPrefix \o Dash \o fileNumber \o Dash \o NumberToString(partNumber)
         \o Dash \o originalId
  ELSE info.puzzleIdPrefix \o Dash \o fileNumber \o Dash \o originalId

\* line 423
FilePrefix(fileNumber, partNumber, needsSplit) ==
  IF needsSplit THEN fileNumber \o Dash \o NumberToString(partNumber) ELSE fileNumber

\* lines 438-440
ProblemName(motive, firstId, lastId, needsSplit) ==
  IF needsSplit THEN motive \o <<" ", "(">> \o firstId \o Dash \o lastId \o <<")">>
  ELSE motive

\* path.normalize on the segments of a relative path: empty and "." segments
\* are dropped, and ".." takes back the segment before it when there is one
RECURSIVE NormalizeSegments(_, _)
NormalizeSegments(segs, out) ==
  IF segs = <<>> THEN out
  ELSE LET Step(seg) ==
             IF seg = <<>> \/ seg = <<".">> THEN out
             ELSE IF seg = <<".", ".">> /\ out # <<>> /\ out[Len(out)] # <<".", ".">>
             THEN SubSeq(out, 1, Len(out) - 1)
             ELSE Append(out, seg)
       IN  NormalizeSegments(Tail(segs), Step(Head(segs)))

\* path.join of relative parts the last of which does not end in "/": the
\* non-empty parts joined by "/" and normalized, "." when nothing is left
PathJoin(parts) ==
  LET Normalized(segs) == IF segs = <<>> THEN <<".">> ELSE Join(segs, <<"/">>)
  IN  Normalized(NormalizeSegments(Split(Join(parts, <<"/">>), "/"), <<>>))

\* join("data", info.id, jsonFilename)
DataPath(id, jsonFilename) == PathJoin(<<<<"d", "a", "t", "a">>, id, jsonFilename>>)

\* lines 419-451 for one chunk: threw = TRUE is the TypeError of line 434 on
\* chunk[0] of an empty chunk
ProcessChunk(info, fileNumber, motiveSlug, motive, chunk, partNumber, needsSplit) ==
  LET filePrefix   == FilePrefix(fileNumber, partNumber, needsSplit)
      jsonFilename == filePrefix \o <<"_">> \o motiveSlug \o <<".", "j", "s", "o", "n">>
      chunkPuzzles == [j \in 1..Len(chunk) |->
                         [chunk[j].puzzle EXCEPT !.puzzleId =
                            PuzzleId(info, fileNumber, partNumber,
                                     chunk[j].originalId, needsSplit)]]
  IN  IF Len(chunk) = 0 THEN [threw |-> TRUE]
      ELSE [threw |-> FALSE,
            problem |-> [id |-> filePrefix \o <<"_">> \o motiveSlug,
                         name |-> ProblemName(motive, chunk[1].originalId,
                                              chunk[Len(chunk)].originalId, needsSplit),
                         file |-> jsonFilename],
            puzzleFile |-> [path |-> DataPath(info.id, jsonFilename),
                            puzzles |-> chunkPuzzles]]

\* the loop of lines 418-452 from chunk number partNumber on
RECURSIVE ProcessChunks(_, _, _, _, _, _)
ProcessChunks(info, fileNumber, motiveSlug, motive, chunks, partNumber) ==
  IF partNumber > Len(chunks)
  THEN [threw |-> FALSE, problems |-> <<>>, puzzleFiles |-> <<>>]
  ELSE LET one  == ProcessChunk(info, fileNumber, motiveSlug, motive,
                                chunks[partNumber], partNumber, Len(chunks) > 1)
           rest == ProcessChunks(info, fileNumber, motiveSlug, motive, chunks,
                                 partNumber + 1)
       IN  IF one.threw
           THEN [threw |-> TRUE, problems |-> <<>>, puzzleFiles |-> <<>>]
           ELSE [threw |-> rest.threw,
                 problems |-> <<one.problem>> \o rest.problems,
                 puzzleFiles |-> <<one.puzzleFile>> \o rest.puzzleFiles]

\* lines 364-452 for one PGN file
ProcessFile(info, pgnFile) ==
  LET Chunks(all) == splitIntoChunks(all, ChunkSize(info, Len(all)))
      Matching(fileNumber, motiveSlug, motive) ==
        IF ~Truthy(fileNumber)
        THEN [threw |-> FALSE, problems |-> <<>>, puzzleFiles |-> <<>>]
        ELSE ProcessChunks(info, fileNumber, motiveSlug, motive,
                           Chunks(AllPuzzles(parsePGN(pgnFile.content), info, motive)),
                           1)
  IN  Matching(extractFileNumber(pgnFile.name), extractMotiveSlug(pgnFile.name),
               extractMotive(pgnFile.name))

\* the loop of lines 363-453 over the sorted files
RECURSIVE ProcessFiles(_, _)
ProcessFiles(info, pgnFiles) ==
  IF pgnFiles = <<>>
  THEN [threw |-> FALSE, problems |-> <<>>, puzzleFiles |-> <<>>]
  ELSE LET Both(one, rest) ==
             IF one.threw
             THEN [threw |-> TRUE, problems |-> <<>>, puzzleFiles |-> <<>>]
             ELSE [threw |-> rest.threw,
                   problems |-> one.problems \o rest.problems,
                   puzzleFiles |-> one.puzzleFiles \o rest.puzzleFiles]
       IN  Both(ProcessFile(info, Head(pgnFiles)), ProcessFiles(info, Tail(pgnFiles)))

\* processCollection: kind "null" is the null of lines 340 and 352, kind
\* "threw" an exception that leaves the function, kind "result" line 455
processCollection(folder) ==
  LET Returned(done) ==
        IF done.threw THEN [kind |-> "threw"]
        ELSE [kind |-> "result",
              collection |-> [id |-> folder.info.id, name |-> folder.info.name,
                              problems |-> done.problems],
              puzzleFiles |-> done.puzzleFiles]
      Listed(pgnFiles) ==
        IF Len(pgnFiles) = 0 THEN [kind |-> "null"]
        ELSE Returned(ProcessFiles(folder.info, pgnFiles))
  IN  IF ~folder.hasInfo THEN [kind |-> "null"]
      ELSE Listed(SortedPgnFiles(folder.files))

\* ------------------------------------------------------------------------
\* Inputs: the texts the model draws PGN files from
\* ------------------------------------------------------------------------
WhiteToMove == <<" ", "w", " ", "K", "Q", "k", "q", " ", "-", " ", "0", " ">>

BlackToMove == <<" ", "b", " ", "K", "Q", "k", "q", " ", "-", " ", "0", " ">>

\* the initial position, White to move
FenStart == FenBoardStart \o WhiteToMove \o <<"1">>

\* the position after 1. e4, Black to move
FenAfterE4 == FenBoardAfterE4 \o BlackToMove \o <<"1">>

\* the same positions with the invalid fullmove number 0
FenStartZero == FenBoardStart \o WhiteToMove \o <<"0">>

FenAfterE4Zero == FenBoardAfterE4 \o BlackToMove \o <<"0">>

\* the initial position written with two spaces after the board: halfmove
\* clock 0, fullmove number 1
FenStartSpaced == FenBoardStart \o <<" ">> \o WhiteToMove \o <<"1">>

\* an OriginalID tag after a byte order mark
OidLine7 ==
  <<"﻿", "[", "O", "r", "i", "g", "i", "n", "a", "l", "I", "D", " ", "\"", "7",
    "\"", "]">>

OidLine2 ==
  <<"[", "O", "r", "i", "g", "i", "n", "a", "l", "I", "D", " ", "\"", "2",
    "\"", "]">>

OidLineEmpty ==
  <<"[", "O", "r", "i", "g", "i", "n", "a", "l", "I", "D", " ", "\"", "\"",
    "]">>

EventLine == <<"[", "E", "v", "e", "n", "t", " ", "\"", "?", "\"", "]">>

OtherTagLine == <<"[", "W", "h", "i", "t", "e", " ", "\"", "x", "\"", "]">>

FenLine(fen) == <<"[", "F", "E", "N", " ", "\"">> \o fen \o <<"\"", "]">>

BlankLine == <<>>

MovesLineA == <<"1", ".", " ", "e", "4", " ", "e", "5", " ", "*">>

\* a move between a no-break space and a form feed and a line tabulation
MovesLineB == <<" ", "N", "f", "3", "\f", "">>

MovesLineBad == <<"1", ".", " ", "Q", "h", "5", " ", "*">>

\* a position and its moves, with a Windows line ending between them
FenAndMoves == FenLine(FenStart) \o <<"\r", "\n">> \o MovesLineA

\* the pieces of text a PGN file is put together from, one per line
PartPool ==
  {OidLine7, OidLineEmpty, EventLine, FenLine(FenStart), FenLine(FenAfterE4Zero),
   FenLine(FenStartSpaced), OtherTagLine, BlankLine, MovesLineA, MovesLineB,
   FenAndMoves}

SeqsUpTo(S, n) == UNION {[1..k -> S] : k \in 0..n}

\* the position strings records are drawn from, as their fields: two valid
\* positions, one with the fullmove number 0, and strings that are no FEN
FenFieldsPool ==
  {<<FenBoardStart, <<"w">>, <<"K", "Q", "k", "q">>, <<"-">>, <<"0">>, <<"1">>>>,
   <<FenBoardAfterE4, <<"b">>, <<"K", "Q", "k", "q">>, <<"-">>, <<"0">>, <<"1">>>>,
   <<FenBoardStart, <<"w">>, <<"K", "Q", "k", "q">>, <<"-">>, <<"0">>, <<"0">>>>,
   <<<<"x">>>>,
   <<<<"x">>, <<"w">>>>,
   <<<<"x">>, <<"b">>>>,
   <<<<"x">>, <<>>, <<"b">>>>}

\* the pieces of text a moves string is put together from
MoveTextPool ==
  {<<"1", ".">>, <<"e", "4">>, <<"e", "5">>, <<"N", "f", "3">>, <<"x", "x">>,
   <<"*">>, <<"{", "c", "}">>, <<"(", "e", "5", ")">>, <<"1", ".", ".", ".">>}

PuzzleTypes == {"static", "dynamic"}

SourceText == <<"B", "o", "o", "k">>

\* two items of allPuzzles, as lines 392-402 push them
SamplePuzzle(fen, type, orientation, from, to) ==
  [puzzleId |-> <<>>, fen |-> fen, type |-> type, orientation |-> orientation,
   solution |-> <<[from |-> from, to |-> to]>>, source |-> SourceText,
   motive |-> <<"P", "i", "n">>]

ItemPool ==
  {[puzzle |-> SamplePuzzle(FenStart, "static", "white", <<"e", "2">>, <<"e", "4">>),
    originalId |-> <<"1">>],
   [puzzle |-> SamplePuzzle(FenAfterE4, "static", "black", <<"e", "7">>, <<"e", "5">>),
    originalId |-> <<"7">>]}

\* the CollectionInfo records: puzzlesPerFile absent, or 0..MaxPerFile
Info(id, prefix, type) ==
  [id |-> id, name |-> <<"M", "y", " ">> \o id, source |-> SourceText,
   puzzleIdPrefix |-> prefix, defaultType |-> type]

InfoBase(type) == Info(<<"m", "c">>, <<"M", "C">>, type)

WithPerFile(base, n) ==
  [f \in DOMAIN base \cup {"puzzlesPerFile"} |->
     IF f = "puzzlesPerFile" THEN n ELSE base[f]]

MotivePin == <<"P", "i", "n">>

\* the files of the collection folders
TextOf(textLines) == Join(textLines, <<"\n">>)

BlackMovesLine == <<"1", ".", ".", ".", " ", "e", "5", " ", "*">>

\* one record without an OriginalID
FilePin ==
  [name |-> <<"0", "1", "_", "p", "i", "n", ".", "p", "g", "n">>,
   content |-> TextOf(<<FenAndMoves>>)]

\* three records: OriginalID 7, then two without an OriginalID
FileBackRank ==
  [name |-> <<"0", "2", "_", "B", "a", "c", "k", "_", "r", "a", "n", "k", ".",
              "p", "g", "n">>,
   content |-> TextOf(<<OidLine7, FenAndMoves, BlankLine, EventLine,
                        FenLine(FenAfterE4Zero), BlackMovesLine, EventLine,
                        FenAndMoves, MovesLineB>>)]

\* two records: OriginalID 2, then one without an OriginalID
FileDup ==
  [name |-> <<"0", "3", "_", "é", "P", "É", "E", ".", "p", "g", "n">>,
   content |-> TextOf(<<OidLine2, FenAndMoves, EventLine, FenAndMoves>>)]

\* two records and no puzzle: no legal move, and no valid position
FileNone ==
  [name |-> <<"0", "4", "_", "n", "o", "n", "e", ".", "p", "g", "n">>,
   content |-> TextOf(<<FenLine(FenStart), MovesLineBad, EventLine,
                        FenLine(<<"x">>), MovesLineA>>)]

\* a PGN file whose name has no number
FileAbc ==
  [name |-> <<"a", "b", "c", ".", "p", "g", "n">>, content |-> TextOf(<<FenAndMoves>>)]

FileNotes ==
  [name |-> <<"n", "o", "t", "e", "s", ".", "t", "x", "t">>, content |-> MovesLineA]

Folder(id, prefix, type, files) ==
  [name |-> id, hasInfo |-> TRUE, info |-> Info(id, prefix, type), files |-> files]

\* the folders puzzles/ may hold
FolderPool ==
  <<Folder(<<"b", "d">>, <<"B", "D">>, "static", {FileAbc}),
    Folder(<<"b", "k">>, <<"B", "K">>, "dynamic", {FileBackRank, FileNotes}),
    Folder(<<"d", "u">>, <<"D", "U">>, "static", {FileDup}),
    Folder(<<"e", "m">>, <<"E", "M">>, "static", {FilePin, FileNone}),
    [Folder(<<"e", "n">>, <<"E", "N">>, "static", {FileNone, FileBackRank})
       EXCEPT !.info = WithPerFile(@, 1)],
    Folder(<<"m", "c">>, <<"M", "C">>, "static", {FilePin}),
    [Folder(<<"n", "i">>, <<"N", "I">>, "static", {FilePin}) EXCEPT !.hasInfo = FALSE],
    [Folder(<<"s", "p">>, <<"S", "P">>, "dynamic", {FileBackRank, FilePin, FileAbc})
       EXCEPT !.info = WithPerFile(@, 2)],
    Folder(<<"t", "x">>, <<"T", "X">>, "static", {FileNotes})>>

\* the folders of the pool in the order readdirSync lists them, which no
\* runtime specifies: order names each folder at most once
Pick(pool, order) == [k \in 1..Len(order) |-> pool[order[k]]]

\* the listings of at most MaxFolders folders of the pool, in any order
Listings ==
  {order \in SeqsUpTo(1..Len(FolderPool), MaxFolders) :
     \A a, b \in 1..Len(order) : a # b => order[a] # order[b]}

\* ------------------------------------------------------------------------
\* State
\* ------------------------------------------------------------------------
VARIABLES
  pgnContent,         \* parsePGN: the argument
  lines,              \* parsePGN: the normalized lines
  i,                  \* parsePGN: the number of lines scanned
  currentFen, currentOriginalId, currentMoves, puzzleIndex, puzzles,
  pgnPc,              \* parsePGN: "idle", "start", "scan" or "done"
  raw,                \* the record of one iteration of the loop of line 383
  info,               \* the CollectionInfo of that iteration
  chess,              \* parseMoves: the rules engine
  moveTokens,         \* parseMoves: the tokens to replay
  t,                  \* parseMoves: the number of tokens replayed
  solution,           \* parseMoves: the moves decoded
  allPuzzles,         \* the items pushed by the iteration
  asmPc,              \* "idle", "call", "clean", "replay", "threw", "pushed",
                      \* "skipped" or "error"
  chunkInfo,          \* lines 408-411: the CollectionInfo
  fileItems,          \* lines 408-411: allPuzzles, the argument arr
  chunkSize,          \* the argument size
  ci,                 \* splitIntoChunks: i
  chunks,             \* splitIntoChunks: chunks
  chunkPc,            \* "idle", "size", "split" or "done"
  puzzlesDir,         \* main: the folders of puzzles/
  collectionFolders,  \* main: the folders with an info.json
  processed,          \* main: the number of folders processed
  collections,        \* main: collections
  allPuzzleFiles,     \* main: allPuzzleFiles
  written,            \* main: the paths of the puzzle files written
  indexJson,          \* main: data/index.json, once written
  pc                  \* main: "idle", "start", "collections", "write",
                      \* "index", "done", "exit1" or "aborted"

pgnVars ==
  <<pgnContent, lines, i, currentFen, currentOriginalId, currentMoves,
    puzzleIndex, puzzles, pgnPc>>

asmVars == <<raw, info, chess, moveTokens, t, solution, allPuzzles, asmPc>>

chunkVars == <<chunkInfo, fileItems, chunkSize, ci, chunks, chunkPc>>

mainVars ==
  <<puzzlesDir, collectionFolders, processed, collections, allPuzzleFiles, written,
    indexJson, pc>>

vars == <<pgnVars, asmVars, chunkVars, mainVars>>

\* ------------------------------------------------------------------------
\* parsePGN, one line at a time
\* ------------------------------------------------------------------------
ScanState ==
  [currentFen |-> currentFen, currentOriginalId |-> currentOriginalId,
   currentMoves |-> currentMoves, puzzleIndex |-> puzzleIndex,
   puzzles |-> puzzles]

SetScanState(st) ==
  /\ currentFen' = st.currentFen
  /\ currentOriginalId' = st.currentOriginalId
  /\ currentMoves' = st.currentMoves
  /\ puzzleIndex' = st.puzzleIndex
  /\ puzzles' = st.puzzles

PgnIdle ==
  /\ pgnContent = <<>>
  /\ lines = <<>>
  /\ i = 0
  /\ currentFen = Null
  /\ currentOriginalId = Null
  /\ currentMoves = <<>>
  /\ puzzleIndex = 0
  /\ puzzles = <<>>
  /\ pgnPc = "idle"

AsmIdle ==
  /\ raw = [fen |-> <<>>, moves |-> <<>>, originalId |-> <<>>]
  /\ info = [defaultType |-> "static", source |-> <<>>]
  /\ chess = NoEngine
  /\ moveTokens = <<>>
  /\ t = 0
  /\ solution = <<>>
  /\ allPuzzles = <<>>
  /\ asmPc = "idle"

ChunkIdle ==
  /\ chunkInfo = InfoBase("static")
  /\ fileItems = <<>>
  /\ chunkSize = 0
  /\ ci = 0
  /\ chunks = <<>>
  /\ chunkPc = "idle"

NoIndex == [written |-> FALSE, collections |-> <<>>]

MainIdle ==
  /\ puzzlesDir = <<>>
  /\ collectionFolders = <<>>
  /\ processed = 0
  /\ collections = <<>>
  /\ allPuzzleFiles = <<>>
  /\ written = <<>>
  /\ indexJson = NoIndex
  /\ pc = "idle"

PgnInit ==
  /\ AsmIdle
  /\ ChunkIdle
  /\ MainIdle
  /\ \E parts \in SeqsUpTo(PartPool, MaxParts) : pgnContent = Join(parts, <<"\n">>)
  /\ lines = <<>>
  /\ i = 0
  /\ currentFen = Null
  /\ currentOriginalId = Null
  /\ currentMoves = <<>>
  /\ puzzleIndex = 0
  /\ puzzles = <<>>
  /\ pgnPc = "start"

\* lines 141-149
PgnStart ==
  /\ pgnPc = "start"
  /\ lines' = NormalizedLines(pgnContent)
  /\ pgnPc' = "scan"
  /\ UNCHANGED <<pgnContent, i, currentFen, currentOriginalId, currentMoves,
                 puzzleIndex, puzzles>>
  /\ UNCHANGED <<asmVars, chunkVars, mainVars>>

\* lines 165-209
PgnScanLine ==
  /\ pgnPc = "scan"
  /\ i < Len(lines)
  /\ SetScanState(ScanLine(ScanState, lines[i + 1]))
  /\ i' = i + 1
  /\ UNCHANGED <<pgnContent, lines, pgnPc>>
  /\ UNCHANGED <<asmVars, chunkVars, mainVars>>

\* lines 211-214
PgnFinish ==
  /\ pgnPc = "scan"
  /\ i = Len(lines)
  /\ SetScanState(savePuzzle(ScanState))
  /\ pgnPc' = "done"
  /\ UNCHANGED <<pgnContent, lines, i>>
  /\ UNCHANGED <<asmVars, chunkVars, mainVars>>

PgnNext == PgnStart \/ PgnScanLine \/ PgnFinish

SpecPGN == PgnInit /\ [][PgnNext]_vars

\* ------------------------------------------------------------------------
\* One record through parseMoves and the body of the loop of lines 383-406
\* ------------------------------------------------------------------------
AsmInit ==
  /\ PgnIdle
  /\ ChunkIdle
  /\ MainIdle
  /\ \E f \in FenFieldsPool :
     \E ms \in SeqsUpTo(MoveTextPool, MaxTokens) \ {<<>>} :
       raw = [fen |-> Join(f, <<" ">>), moves |-> Join(ms, <<" ">>),
              originalId |-> <<"1">>]
  /\ \E type \in PuzzleTypes : info = [defaultType |-> type, source |-> SourceText]
  /\ chess = NoEngine
  /\ moveTokens = <<>>
  /\ t = 0
  /\ solution = <<>>
  /\ allPuzzles = <<>>
  /\ asmPc = "call"

\* line 221, the constructor returns
AsmNewChess ==
  /\ asmPc = "call"
  /\ NewChess(raw.fen).valid
  /\ chess' = NewChess(raw.fen)
  /\ asmPc' = "clean"
  /\ UNCHANGED <<raw, info, moveTokens, t, solution, allPuzzles>>
  /\ UNCHANGED <<pgnVars, chunkVars, mainVars>>

\* line 221, the constructor throws: parseMoves is left by the exception
AsmNewChessThrows ==
  /\ asmPc = "call"
  /\ ~NewChess(raw.fen).valid
  /\ asmPc' = "threw"
  /\ UNCHANGED <<raw, info, chess, moveTokens, t, solution, allPuzzles>>
  /\ UNCHANGED <<pgnVars, chunkVars, mainVars>>

\* lines 222-251
AsmMoveTokens ==
  /\ asmPc = "clean"
  /\ moveTokens' = MoveTokens(raw.moves)
  /\ asmPc' = "replay"
  /\ UNCHANGED <<raw, info, chess, t, solution, allPuzzles>>
  /\ UNCHANGED <<pgnVars, chunkVars, mainVars>>

\* lines 253-265, one token
AsmTryMove ==
  /\ asmPc = "replay"
  /\ t < Len(moveTokens)
  /\ LET dec == TryMove([chess |-> chess, solution |-> solution], moveTokens[t + 1])
     IN  chess' = dec.chess /\ solution' = dec.solution
  /\ t' = t + 1
  /\ UNCHANGED <<raw, info, moveTokens, allPuzzles, asmPc>>
  /\ UNCHANGED <<pgnVars, chunkVars, mainVars>>

\* lines 267 and 387-390: parseMoves returns no move
AsmSkip ==
  /\ asmPc = "replay"
  /\ t = Len(moveTokens)
  /\ Len(solution) = 0
  /\ asmPc' = "skipped"
  /\ UNCHANGED <<raw, info, chess, moveTokens, t, solution, allPuzzles>>
  /\ UNCHANGED <<pgnVars, chunkVars, mainVars>>

\* lines 267 and 392-402: parseMoves returns moves
AsmPush ==
  /\ asmPc = "replay"
  /\ t = Len(moveTokens)
  /\ Len(solution) # 0
  /\ LET orientation == calculateOrientation(raw.fen, info.defaultType)
     IN  IF orientation.ok
         THEN /\ allPuzzles' =
                   Append(allPuzzles,
                          [puzzle |-> [puzzleId |-> <<>>, fen |-> raw.fen,
                                       type |-> info.defaultType,
                                       orientation |-> orientation.val,
                                       solution |-> solution,
                                       source |-> info.source, motive |-> MotivePin],
                           originalId |-> raw.originalId])
              /\ asmPc' = "pushed"
         ELSE /\ allPuzzles' = allPuzzles
              /\ asmPc' = "error"
  /\ UNCHANGED <<raw, info, chess, moveTokens, t, solution>>
  /\ UNCHANGED <<pgnVars, chunkVars, mainVars>>

\* lines 403-405: the exception is caught and logged
AsmCatch ==
  /\ asmPc = "threw"
  /\ asmPc' = "error"
  /\ UNCHANGED <<raw, info, chess, moveTokens, t, solution, allPuzzles>>
  /\ UNCHANGED <<pgnVars, chunkVars, mainVars>>

AsmNext ==
  \/ AsmNewChess
  \/ AsmNewChessThrows
  \/ AsmMoveTokens
  \/ AsmTryMove
  \/ AsmSkip
  \/ AsmPush
  \/ AsmCatch

SpecAssemble == AsmInit /\ [][AsmNext]_vars

\* ------------------------------------------------------------------------
\* The chunks of one file: lines 408-411 and splitIntoChunks
\* ------------------------------------------------------------------------
ChunkInit ==
  /\ PgnIdle
  /\ AsmIdle
  /\ MainIdle
  /\ fileItems \in SeqsUpTo(ItemPool, MaxPuzzles)
  /\ chunkInfo \in {InfoBase("static")}
                   \cup {WithPerFile(InfoBase("static"), n) : n \in 0..MaxPerFile}
  /\ chunkSize = 0
  /\ ci = 0
  /\ chunks = <<>>
  /\ chunkPc = "size"

\* line 409
ChunkComputeSize ==
  /\ chunkPc = "size"
  /\ chunkSize' = ChunkSize(chunkInfo, Len(fileItems))
  /\ chunkPc' = "split"
  /\ UNCHANGED <<chunkInfo, fileItems, ci, chunks>>
  /\ UNCHANGED <<pgnVars, asmVars, mainVars>>

\* line 125
ChunkReturnWhole ==
  /\ chunkPc = "split"
  /\ chunkSize <= 0
  /\ chunks' = <<fileItems>>
  /\ chunkPc' = "done"
  /\ UNCHANGED <<chunkInfo, fileItems, chunkSize, ci>>
  /\ UNCHANGED <<pgnVars, asmVars, mainVars>>

\* lines 127-129, one iteration
ChunkSliceNext ==
  /\ chunkPc = "split"
  /\ chunkSize > 0
  /\ ci < Len(fileItems)
  /\ chunks' = Append(chunks, Slice(fileItems, ci, chunkSize))
  /\ ci' = ci + chunkSize
  /\ UNCHANGED <<chunkInfo, fileItems, chunkSize, chunkPc>>
  /\ UNCHANGED <<pgnVars, asmVars, mainVars>>

\* line 130
ChunkReturn ==
  /\ chunkPc = "split"
  /\ chunkSize > 0
  /\ ci >= Len(fileItems)
  /\ chunkPc' = "done"
  /\ UNCHANGED <<chunkInfo, fileItems, chunkSize, ci, chunks>>
  /\ UNCHANGED <<pgnVars, asmVars, mainVars>>

ChunkNext == ChunkComputeSize \/ ChunkReturnWhole \/ ChunkSliceNext \/ ChunkReturn

SpecChunks == ChunkInit /\ [][ChunkNext]_vars

\* ------------------------------------------------------------------------
\* main (build.ts 461-527)
\* ------------------------------------------------------------------------
Init ==
  /\ PgnIdle
  /\ AsmIdle
  /\ ChunkIdle
  /\ \E order \in Listings : puzzlesDir = Pick(FolderPool, order)
  /\ collectionFolders = <<>>
  /\ processed = 0
  /\ collections = <<>>
  /\ allPuzzleFiles = <<>>
  /\ written = <<>>
  /\ indexJson = NoIndex
  /\ pc = "start"

\* lines 478-481
FoldersWithInfo(folders) == SelectSeq(folders, LAMBDA f : f.hasInfo)

\* lines 462-486 with at least one collection folder
MainStart ==
  /\ pc = "start"
  /\ Len(FoldersWithInfo(puzzlesDir)) # 0
  /\ collectionFolders' = FoldersWithInfo(puzzlesDir)
  /\ pc' = "collections"
  /\ UNCHANGED <<puzzlesDir, processed, collections, allPuzzleFiles, written, indexJson>>
  /\ UNCHANGED <<pgnVars, asmVars, chunkVars>>

\* lines 483-486: process.exit(1)
MainNoCollections ==
  /\ pc = "start"
  /\ Len(FoldersWithInfo(puzzlesDir)) = 0
  /\ pc' = "exit1"
  /\ UNCHANGED <<puzzlesDir, collectionFolders, processed, collections, allPuzzleFiles,
                 written, indexJson>>
  /\ UNCHANGED <<pgnVars, asmVars, chunkVars>>

\* lines 489-497, processCollection returns a result
MainCollectionAdded ==
  /\ pc = "collections"
  /\ processed < Len(collectionFolders)
  /\ \E result \in {processCollection(collectionFolders[processed + 1])} :
       /\ result.kind = "result"
       /\ collections' = Append(collections, result.collection)
       /\ allPuzzleFiles' = allPuzzleFiles \o result.puzzleFiles
  /\ processed' = processed + 1
  /\ UNCHANGED <<puzzlesDir, collectionFolders, written, indexJson, pc>>
  /\ UNCHANGED <<pgnVars, asmVars, chunkVars>>

\* lines 489-497, processCollection returns null
MainCollectionSkipped ==
  /\ pc = "collections"
  /\ processed < Len(collectionFolders)
  /\ processCollection(collectionFolders[processed + 1]).kind = "null"
  /\ processed' = processed + 1
  /\ UNCHANGED <<puzzlesDir, collectionFolders, collections, allPuzzleFiles,
                 written, indexJson, pc>>
  /\ UNCHANGED <<pgnVars, asmVars, chunkVars>>

\* line 491, processCollection throws: nothing in main catches it, and the
\* build ends without writing anything
MainCollectionThrows ==
  /\ pc = "collections"
  /\ processed < Len(collectionFolders)
  /\ processCollection(collectionFolders[processed + 1]).kind = "threw"
  /\ pc' = "aborted"
  /\ UNCHANGED <<puzzlesDir, collectionFolders, processed, collections, allPuzzleFiles,
                 written, indexJson>>
  /\ UNCHANGED <<pgnVars, asmVars, chunkVars>>

\* line 497, the end of the loop
MainCollectionsDone ==
  /\ pc = "collections"
  /\ processed = Len(collectionFolders)
  /\ pc' = "write"
  /\ UNCHANGED <<puzzlesDir, collectionFolders, processed, collections, allPuzzleFiles,
                 written, indexJson>>
  /\ UNCHANGED <<pgnVars, asmVars, chunkVars>>

\* lines 501-511, one file
MainWriteFile ==
  /\ pc = "write"
  /\ Len(written) < Len(allPuzzleFiles)
  /\ written' = Append(written, allPuzzleFiles[Len(written) + 1].path)
  /\ UNCHANGED <<puzzlesDir, collectionFolders, processed, collections, allPuzzleFiles,
                 indexJson, pc>>
  /\ UNCHANGED <<pgnVars, asmVars, chunkVars>>

\* lines 513-524
MainWriteIndex ==
  /\ pc = "write"
  /\ Len(written) = Len(allPuzzleFiles)
  /\ indexJson' = [written |-> TRUE, collections |-> collections]
  /\ pc' = "done"
  /\ UNCHANGED <<puzzlesDir, collectionFolders, processed, collections, allPuzzleFiles,
                 written>>
  /\ UNCHANGED <<pgnVars, asmVars, chunkVars>>

Next ==
  \/ MainStart
  \/ MainNoCollections
  \/ MainCollectionAdded
  \/ MainCollectionSkipped
  \/ MainCollectionThrows
  \/ MainCollectionsDone
  \/ MainWriteFile
  \/ MainWriteIndex

Spec == Init /\ [][Next]_vars

\* ------------------------------------------------------------------------
\* C5: original IDs
\* ------------------------------------------------------------------------
\* the lines of the pool that start a segment, and the ID each declares
IsSegmentOpener(l) == l \in {OidLine7, OidLine2, OidLineEmpty, EventLine}

DeclaredId(l) ==
  IF l = OidLine7 THEN <<"7">> ELSE IF l = OidLine2 THEN <<"2">> ELSE Null

\* the line that opened the segment the scan is in after i lines, or a blank
\* line when the segment started with the file
CurrentOpener ==
  LET openers == {k \in 1..i : IsSegmentOpener(lines[k])}
  IN  IF openers = {} THEN BlankLine ELSE lines[Max(openers)]

\* C5: a step of parsePGN emits at most one record and leaves the records
\* emitted before it as they are; the record it emits carries the ID of the
\* OriginalID tag that opened its own segment when that tag declares one, and
\* otherwise its 1-based position among the records of this file, never the
\* ID of an earlier segment.
C5_OriginalIdOfOwnSegment ==
  [][/\ Len(puzzles') \in {Len(puzzles), Len(puzzles) + 1}
     /\ SubSeq(puzzles', 1, Len(puzzles)) = puzzles
     /\ Len(puzzles') = Len(puzzles) + 1 =>
          puzzles'[Len(puzzles')].originalId =
            IF DeclaredId(CurrentOpener) # Null
            THEN DeclaredId(CurrentOpener)
            ELSE NumberToString(Len(puzzles) + 1)]_vars

\* a record with a declared ID is followed by one without: it is numbered 2
C5_Witness ==
  /\ pgnPc = "done"
  /\ Len(puzzles) = 2
  /\ puzzles[1].originalId = <<"7">>
  /\ puzzles[2].originalId = <<"2">>

\* ------------------------------------------------------------------------
\* C6: orientation
\* ------------------------------------------------------------------------
\* the fields the position string of the record was put together from
FieldsOfRawFen == CHOOSE f \in FenFieldsPool : Join(f, <<" ">>) = raw.fen

OrientationLaw(sideToMove, type) ==
  CASE type = "static" /\ sideToMove = <<"w">> -> "white"
    [] type = "static" /\ sideToMove = <<"b">> -> "black"
    [] type = "dynamic" /\ sideToMove = <<"w">> -> "black"
    [] type = "dynamic" /\ sideToMove = <<"b">> -> "white"

\* C6: for a position string of at least two fields whose second field is
\* "w" or "b", calculateOrientation returns the side to move for type static
\* and the other side for type dynamic; every puzzle assembled carries that
\* value for its own fen and the defaultType of the collection.
C6_Orientation ==
  LET f == FieldsOfRawFen
  IN  /\ \A type \in PuzzleTypes :
           Len(f) >= 2 /\ f[2] \in {<<"w">>, <<"b">>} =>
             calculateOrientation(raw.fen, type) =
               [ok |-> TRUE, val |-> OrientationLaw(f[2], type)]
      /\ \A k \in 1..Len(allPuzzles) :
           /\ allPuzzles[k].puzzle.fen = raw.fen
           /\ allPuzzles[k].puzzle.type = info.defaultType
           /\ allPuzzles[k].puzzle.orientation = OrientationLaw(f[2], info.defaultType)

\* a dynamic puzzle with Black to move is shown from White's side
C6_Witness ==
  /\ asmPc = "pushed"
  /\ info.defaultType = "dynamic"
  /\ FieldsOfRawFen[2] = <<"b">>
  /\ allPuzzles[1].puzzle.orientation = "white"

\* ------------------------------------------------------------------------
\* C9: parseMoves and exceptions
\* ------------------------------------------------------------------------
\* C9: parseMoves is never left by an exception.
C9_ParseMovesNeverThrows == asmPc # "threw"

\* ------------------------------------------------------------------------
\* C10: one puzzle per record with an accepted move
\* ------------------------------------------------------------------------
\* the position after the tokens, each tried on the position the last
\* accepted one left, and the origin and destination of the accepted ones
RECURSIVE PositionAfter(_, _)
PositionAfter(pos, tokens) ==
  IF tokens = <<>> THEN pos
  ELSE PositionAfter(ChessMove(pos, Head(tokens)).chess, Tail(tokens))

RECURSIVE AcceptedMoves(_, _)
AcceptedMoves(pos, tokens) ==
  IF tokens = <<>> THEN <<>>
  ELSE LET m == ChessMove(pos, Head(tokens))
       IN  (IF m.ok THEN <<[from |-> m.from, to |-> m.to]>> ELSE <<>>)
             \o AcceptedMoves(m.chess, Tail(tokens))

\* C10: a record yields exactly one puzzle when the rules engine accepts at
\* least one of its move tokens and none otherwise; while the tokens are
\* replayed and in the puzzle, the solution is the origin and destination of
\* exactly the accepted tokens, in token order, each token tried on the
\* position reached after the last accepted one.
C10_OnePuzzlePerDecodableRecord ==
  LET engine   == NewChess(raw.fen)
      tokens   == MoveTokens(raw.moves)
      accepted == IF engine.valid THEN AcceptedMoves(engine, tokens) ELSE <<>>
  IN  /\ asmPc \in {"pushed", "skipped", "error"} =>
           Len(allPuzzles) = IF accepted # <<>> THEN 1 ELSE 0
      /\ asmPc \notin {"pushed", "skipped", "error"} => allPuzzles = <<>>
      /\ \A k \in 1..Len(allPuzzles) : allPuzzles[k].puzzle.solution = accepted
      /\ asmPc = "replay" =>
           /\ moveTokens = tokens
           /\ solution = AcceptedMoves(engine, SubSeq(tokens, 1, t))
           /\ chess = PositionAfter(engine, SubSeq(tokens, 1, t))

\* a puzzle of two moves from three tokens, the first of which was rejected
C10_Witness ==
  /\ asmPc = "pushed"
  /\ Len(moveTokens) = 3
  /\ ~ChessMove(NewChess(raw.fen), moveTokens[1]).ok
  /\ Len(allPuzzles[1].puzzle.solution) = 2

\* ------------------------------------------------------------------------
\* C3, C4: chunks
\* ------------------------------------------------------------------------
RECURSIVE Concat(_)
Concat(seqs) == IF seqs = <<>> THEN <<>> ELSE Head(seqs) \o Concat(Tail(seqs))

PerFileSet == "puzzlesPerFile" \in DOMAIN chunkInfo

\* C3: with a positive puzzlesPerFile, the chunks are the sequential slices
\* of the list: chunk k is the items (k-1)*puzzlesPerFile+1 .. k*puzzlesPerFile
\* (as far as the list goes), none is longer than puzzlesPerFile, and the
\* chunks in order make up the part of the list sliced so far, which is the
\* whole list once splitIntoChunks has returned.
C3_ChunksAreSequentialSlices ==
  PerFileSet /\ chunkInfo.puzzlesPerFile > 0 /\ chunkPc \in {"split", "done"} =>
    LET size == chunkInfo.puzzlesPerFile
        n    == Len(fileItems)
    IN  /\ \A k \in 1..Len(chunks) :
             /\ Len(chunks[k]) <= size
             /\ Len(chunks[k]) >= 1
             /\ chunks[k] = [j \in 1..Len(chunks[k]) |-> fileItems[(k - 1) * size + j]]
        /\ Concat(chunks) = SubSeq(fileItems, 1, IF ci > n THEN n ELSE ci)
        /\ chunkPc = "done" => Concat(chunks) = fileItems

\* a list cut into a full chunk and a shorter last one
C3_Witness ==
  /\ chunkPc = "done"
  /\ PerFileSet
  /\ Len(chunks) = 2
  /\ Len(chunks[1]) = chunkInfo.puzzlesPerFile
  /\ Len(chunks[2]) < Len(chunks[1])
  /\ chunks[1] # chunks[2] \o chunks[2]

\* C4 as stated: a list of any length makes exactly one chunk, holding all
\* its puzzles, when puzzlesPerFile is unset or at least the length.
C4_OneChunkForAnyLength ==
  chunkPc = "done"
    /\ (~PerFileSet \/ chunkInfo.puzzlesPerFile >= Len(fileItems))
    => chunks = <<fileItems>>

\* C4, amended: exactly one chunk, holding all the puzzles, results when
\* puzzlesPerFile is unset, or when it is at least the number of puzzles and
\* the list is not empty; an empty list with a positive puzzlesPerFile
\* makes no chunk at all.
C4_OneChunkUnlessEmptyAndBounded ==
  chunkPc = "done" =>
    /\ ~PerFileSet => chunks = <<fileItems>>
    /\ PerFileSet /\ chunkInfo.puzzlesPerFile >= Len(fileItems) /\ Len(fileItems) > 0
         => chunks = <<fileItems>>
    /\ PerFileSet /\ chunkInfo.puzzlesPerFile > 0 /\ Len(fileItems) = 0
         => chunks = <<>>

\* three puzzles and no puzzlesPerFile: one chunk of three
C4_Witness ==
  /\ chunkPc = "done"
  /\ ~PerFileSet
  /\ Len(fileItems) = 3
  /\ chunks = <<fileItems>>

\* ------------------------------------------------------------------------
\* C1: puzzle IDs
\* ------------------------------------------------------------------------
\* the places of the puzzles emitted: file number and position in the file
EmittedPuzzles ==
  {<<f, j>> : f \in 1..Len(allPuzzleFiles), j \in 1..MaxPuzzles} \cap
  {fj \in (1..Len(allPuzzleFiles)) \X (1..MaxPuzzles) :
     fj[2] <= Len(allPuzzleFiles[fj[1]].puzzles)}

\* C1: no two puzzles emitted by a build carry the same puzzleId.
C1_PuzzleIdsUnique ==
  \A a, b \in EmittedPuzzles :
    a # b =>
      allPuzzleFiles[a[1]].puzzles[a[2]].puzzleId
        # allPuzzleFiles[b[1]].puzzles[b[2]].puzzleId

\* ------------------------------------------------------------------------
\* C2: the build runs to completion
\* ------------------------------------------------------------------------
\* C2: once a collection folder is found, no failure of a record, a file or
\* a collection ends the build: it is never aborted by an exception.
C2_BuildNeverAborts == pc # "aborted"

\* ------------------------------------------------------------------------
\* C8: folders without a matching PGN file
\* ------------------------------------------------------------------------
\* the names of the pool that match {digits}_{rest}.pgn
MatchingNames == {FilePin.name, FileBackRank.name, FileDup.name, FileNone.name}

FolderOf(id) == CHOOSE j \in 1..Len(FolderPool) : FolderPool[j].info.id = id

HasMatchingPgn(folder) == \E f \in folder.files : f.name \in MatchingNames

\* C8: a folder without a PGN file of a matching name contributes no entry
\* to the index and no output file.
C8_NoEntryWithoutMatchingPgn ==
  /\ \A j \in 1..Len(collections) :
       HasMatchingPgn(FolderPool[FolderOf(collections[j].id)])
  /\ \A j \in 1..Len(indexJson.collections) :
       HasMatchingPgn(FolderPool[FolderOf(indexJson.collections[j].id)])

\* ------------------------------------------------------------------------
\* C7: identifiers, file names and problem names
\* ------------------------------------------------------------------------
\* file number, slug and motive of the matching names of the pool
NameParts(name) ==
  CASE name = FilePin.name ->
         [number |-> <<"0", "1">>, slug |-> <<"p", "i", "n">>,
          motive |-> <<"P", "i", "n">>]
    [] name = FileBackRank.name ->
         [number |-> <<"0", "2">>,
          slug |-> <<"b", "a", "c", "k", "_", "r", "a", "n", "k">>,
          motive |-> <<"B", "a", "c", "k", " ", "R", "a", "n", "k">>]
    [] name = FileDup.name ->
         [number |-> <<"0", "3">>, slug |-> <<"é", "p", "é", "e">>,
          motive |-> <<"É", "p", "é", "e">>]
    [] name = FileNone.name ->
         [number |-> <<"0", "4">>, slug |-> <<"n", "o", "n", "e">>,
          motive |-> <<"N", "o", "n", "e">>]

JsonExt == <<".", "j", "s", "o", "n">>

\* what the claim says of one source file: per chunk, the puzzleIds, the
\* output file name and the problem name
ExpectedOfFile(colInfo, file) ==
  LET parts  == NameParts(file.name)
      items  == AllPuzzles(parsePGN(file.content), colInfo, parts.motive)
      chs    == splitIntoChunks(items, ChunkSize(colInfo, Len(items)))
      partNo(p) == <<DigitChars[p + 1]>>
  IN  [p \in 1..Len(chs) |->
         IF Len(chs) = 1
         THEN [ids  |-> [j \in 1..Len(chs[p]) |->
                           colInfo.puzzleIdPrefix \o <<"-">> \o parts.number \o <<"-">>
                             \o chs[p][j].originalId],
               file |-> parts.number \o <<"_">> \o parts.slug \o JsonExt,
               name |-> parts.motive]
         ELSE [ids  |-> [j \in 1..Len(chs[p]) |->
                           colInfo.puzzleIdPrefix \o <<"-">> \o parts.number \o <<"-">>
                             \o partNo(p) \o <<"-">> \o chs[p][j].originalId],
               file |-> parts.number \o <<"-">> \o partNo(p) \o <<"_">> \o parts.slug
                          \o JsonExt,
               name |-> parts.motive \o <<" ", "(">> \o chs[p][1].originalId \o <<"-">>
                          \o chs[p][Len(chs[p])].originalId \o <<")">>]]

\* the matching files of a folder in the order of their numbers
MatchingFiles(folder) ==
  SelectSeq(<<FilePin, FileBackRank, FileDup, FileNone>>,
            LAMBDA f : f \in folder.files)

ExpectedOfFolder(folder) ==
  Concat([n \in 1..Len(MatchingFiles(folder)) |->
            ExpectedOfFile(folder.info, MatchingFiles(folder)[n])])

\* the output files of a collection, in the order they were produced
OutputFilesOf(id) ==
  SelectSeq(allPuzzleFiles,
            LAMBDA f : StartsWith(f.path, <<"d", "a", "t", "a", "/">> \o id \o <<"/">>))

\* C7: for every source file of a collection in the index, a single chunk has
\* puzzleIds prefix-fileNumber-originalId, file fileNumber_slug.json and the
\* bare motive as problem name; of k > 1 chunks, chunk p has puzzleIds
\* prefix-fileNumber-p-originalId, file fileNumber-p_slug.json and the name
\* "motive (firstOriginalId-lastOriginalId)" of its first and last puzzle.
C7_IdsFilesAndNames ==
  \A c \in 1..Len(collections) :
    LET id       == collections[c].id
        expected == ExpectedOfFolder(FolderPool[FolderOf(id)])
        problems == collections[c].problems
        files    == OutputFilesOf(id)
    IN  /\ Len(problems) = Len(expected)
        /\ Len(files) = Len(expected)
        /\ \A q \in 1..Len(expected) :
             /\ problems[q].name = expected[q].name
             /\ problems[q].file = expected[q].file
             /\ files[q].path = <<"d", "a", "t", "a", "/">> \o id \o <<"/">>
                                  \o expected[q].file
             /\ [j \in 1..Len(files[q].puzzles) |-> files[q].puzzles[j].puzzleId]
                  = expected[q].ids

\* a build with an unsplit file (SP-01-1 in 01_pin.json, "Pin") and a file
\* split in two (SP-02-1-7 in 02-1_back_rank.json, "Back Rank (7-2)")
C7_Witness ==
  /\ pc = "done"
  /\ \E c \in 1..Len(indexJson.collections) :
       LET problems == indexJson.collections[c].problems
       IN  /\ Len(problems) = 3
           /\ problems[1].name = <<"P", "i", "n">>
           /\ problems[1].file = <<"0", "1", "_", "p", "i", "n", ".", "j", "s", "o", "n">>
           /\ problems[2].name = <<"B", "a", "c", "k", " ", "R", "a", "n", "k", " ", "(", "7", "-", "2", ")">>
           /\ problems[2].file = <<"0", "2", "-", "1", "_", "b", "a", "c", "k", "_", "r", "a", "n", "k", ".", "j", "s", "o", "n">>
           /\ problems[3].name = <<"B", "a", "c", "k", " ", "R", "a", "n", "k", " ", "(", "3", "-", "3", ")">>
  /\ \E f \in 1..Len(allPuzzleFiles) :
       /\ allPuzzleFiles[f].path = <<"d", "a", "t", "a", "/", "s", "p", "/", "0", "2", "-", "1", "_", "b", "a", "c", "k", "_", "r", "a", "n", "k", ".", "j", "s", "o", "n">>
       /\ allPuzzleFiles[f].puzzles[1].puzzleId = <<"S", "P", "-", "0", "2", "-", "1", "-", "7">>
       /\ allPuzzleFiles[f].path \in {written[n] : n \in 1..Len(written)}
  /\ \E f \in 1..Len(allPuzzleFiles) :
       /\ allPuzzleFiles[f].path = <<"d", "a", "t", "a", "/", "s", "p", "/", "0", "1", "_", "p", "i", "n", ".", "j", "s", "o", "n">>
       /\ allPuzzleFiles[f].puzzles[1].puzzleId = <<"S", "P", "-", "0", "1", "-", "1">>

\* ------------------------------------------------------------------------
\* C11: segments and records
\* ------------------------------------------------------------------------
\* the position a line of the pool declares as a FEN tag, as the claim has it
\* in the record: a fullmove number 0 rewritten to 1, nothing else changed
DeclaredFen(l) ==
  IF l = FenLine(FenStart) THEN FenStart
  ELSE IF l = FenLine(FenAfterE4Zero) THEN FenAfterE4
  ELSE IF l = FenLine(FenStartSpaced) THEN FenStartSpaced
  ELSE Null

\* a line of move text: not blank and not a tag
IsMoveLine(l) == Trim(l) # <<>> /\ Head(Trim(l)) # "["

\* the lines that start a segment: the first line and every opener
SegmentStarts(ls) ==
  {k \in 1..Len(ls) : k = 1 \/ IsSegmentOpener(ls[k])}

\* the last line of the segment that starts at line s
SegmentEnd(ls, s) ==
  LET later == {k \in SegmentStarts(ls) : k > s}
  IN  IF later = {} THEN Len(ls) ELSE Min(later) - 1

\* the record of the segment from line s on, in a sequence, or no record
RecordOfSegment(ls, s) ==
  LET seg     == s..SegmentEnd(ls, s)
      fens    == {k \in seg : DeclaredFen(ls[k]) # Null}
      moveIdx == {k \in seg : IsMoveLine(ls[k])}
      moves   == [j \in 1..Cardinality(moveIdx) |-> Trim(ls[Nth(moveIdx, j)])]
  IN  IF fens = {} \/ moveIdx = {} THEN <<>>
      ELSE <<[fen |-> DeclaredFen(ls[Max(fens)]), moves |-> Join(moves, <<" ">>)]>>

\* the records of all segments in input order
RecordsOfSegments(ls) ==
  LET starts == SegmentStarts(ls)
  IN  Concat([j \in 1..Cardinality(starts) |-> RecordOfSegment(ls, Nth(starts, j))])

\* C11: the records parsePGN returns are, in input order, one per segment
\* (delimited by OriginalID and Event lines and the end of input) that has a
\* FEN tag and a line of move text; its fen is the segment's last FEN tag
\* with a fullmove number 0 rewritten to 1 and nothing else changed, and its
\* moves are the segment's lines of move text joined by single spaces.
C11_OneRecordPerCompleteSegment ==
  pgnPc = "done" =>
    [j \in 1..Len(puzzles) |-> [fen |-> puzzles[j].fen, moves |-> puzzles[j].moves]]
      = RecordsOfSegments(lines)

====
